---------------------------- MODULE Spec2Model ----------------------------
(***************************************************************************)
(* A model of the meshio Gmsh codec front end (gmsh/main.py,               *)
(* gmsh/common.py) and of the XDMF time-series reader and writer           *)
(* (xdmf/time_series.py).                                                  *)
(*                                                                         *)
(* File contents are sequences of byte values and text is a sequence of    *)
(* code points, so that readline, decode, strip, split, int(), str() and   *)
(* struct.unpack are computed, not assumed.  A floating point value is a   *)
(* whole number of halves (h stands for h/2) when it has the fraction .0   *)
(* or .5; such a value is printed as repr(), "%.16e" and "%.7e" print it,  *)
(* packed into the bytes of an IEEE-754 double and parsed back.  Any other *)
(* value a file holds is kept as the decimal number or the bytes that      *)
(* spell it.  An integer that int() returns is kept with all its digits.   *)
(***************************************************************************)
EXTENDS Integers, Sequences, FiniteSets, TLC

(***************************************************************************)
(* Bounds of the model.                                                    *)
(***************************************************************************)
MaxCalls == 3       \* write_points_cells and write_data calls in one writer session
MaxItems == 2       \* items of a Gmsh data field
MaxEofReads == 2    \* readline calls followed after a Gmsh input has ended
SureAlloc == 100000000   \* bytes of an array that every machine can allocate

(***************************************************************************)
(* Python text primitives.  A bytes object is a sequence of byte values, a *)
(* str a sequence of code points; decode and encode go from one to the     *)
(* other.  A str of the model holds no lone surrogate.                     *)
(***************************************************************************)
\* The length of the UTF-8 sequence at the head of bs; 0 when it is ill-formed.
Utf8Len(bs) ==
  IF bs[1] < 128 THEN 1
  ELSE IF /\ bs[1] \in 194..223
          /\ Len(bs) >= 2 /\ bs[2] \in 128..191
  THEN 2
  ELSE IF /\ bs[1] \in 224..239
          /\ Len(bs) >= 3 /\ bs[3] \in 128..191
          /\ bs[2] \in (IF bs[1] = 224 THEN 160..191
                        ELSE IF bs[1] = 237 THEN 128..159 ELSE 128..191)
  THEN 3
  ELSE IF /\ bs[1] \in 240..244
          /\ Len(bs) >= 4 /\ bs[3] \in 128..191 /\ bs[4] \in 128..191
          /\ bs[2] \in (IF bs[1] = 240 THEN 144..191
                        ELSE IF bs[1] = 244 THEN 128..143 ELSE 128..191)
  THEN 4
  ELSE 0

\* bytes.decode("utf-8") succeeds, a UnicodeDecodeError otherwise
RECURSIVE decode_ok(_)
decode_ok(bs) ==
  \/ bs = <<>>
  \/ Utf8Len(bs) > 0 /\ decode_ok(SubSeq(bs, Utf8Len(bs) + 1, Len(bs)))

\* The code point of the well-formed sequence of n bytes at the head of bs.
CodePoint(bs, n) ==
  CASE n = 1 -> bs[1]
    [] n = 2 -> (bs[1] - 192) * 64 + (bs[2] - 128)
    [] n = 3 -> (bs[1] - 224) * 4096 + (bs[2] - 128) * 64 + (bs[3] - 128)
    [] OTHER -> (bs[1] - 240) * 262144 + (bs[2] - 128) * 4096 + (bs[3] - 128) * 64
                  + (bs[4] - 128)

\* bytes.decode("utf-8") when decode_ok
RECURSIVE decode(_)
decode(bs) ==
  IF bs = <<>> THEN <<>>
  ELSE <<CodePoint(bs, Utf8Len(bs))>> \o decode(SubSeq(bs, Utf8Len(bs) + 1, Len(bs)))

\* str.encode("utf-8")
RECURSIVE encode(_)
encode(s) ==
  IF s = <<>> THEN <<>>
  ELSE (IF Head(s) < 128 THEN <<Head(s)>>
        ELSE IF Head(s) < 2048
        THEN <<192 + (Head(s) \div 64), 128 + (Head(s) % 64)>>
        ELSE IF Head(s) < 65536
        THEN <<224 + (Head(s) \div 4096), 128 + ((Head(s) \div 64) % 64),
               128 + (Head(s) % 64)>>
        ELSE <<240 + (Head(s) \div 262144), 128 + ((Head(s) \div 4096) % 64),
               128 + ((Head(s) \div 64) % 64), 128 + (Head(s) % 64)>>)
         \o encode(Tail(s))

\* str.isspace() of one code point
IsSpace(c) ==
  \/ c \in {9, 10, 11, 12, 13, 28, 29, 30, 31, 32, 133, 160, 5760, 8232, 8233, 8239,
            8287, 12288}
  \/ c \in 8192..8202

\* isspace() of the C locale, of one byte
IsCSpace(c) == c \in {9, 10, 11, 12, 13, 32}

RECURSIVE lstrip(_)
lstrip(s) == IF s # <<>> /\ IsSpace(Head(s)) THEN lstrip(Tail(s)) ELSE s

RECURSIVE rstrip(_)
rstrip(s) ==
  IF s # <<>> /\ IsSpace(s[Len(s)]) THEN rstrip(SubSeq(s, 1, Len(s) - 1)) ELSE s

strip(s) == rstrip(lstrip(s))

RECURSIVE TakeWord(_)
TakeWord(s) ==
  IF s = <<>> \/ IsSpace(Head(s)) THEN <<>> ELSE <<Head(s)>> \o TakeWord(Tail(s))

\* str.split(): the whitespace separated words of s
RECURSIVE split(_)
split(s) ==
  LET t == lstrip(s)
  IN  IF t = <<>> THEN <<>>
      ELSE LET w == TakeWord(t)
           IN  <<w>> \o split(SubSeq(t, Len(w) + 1, Len(t)))

\* str.split(c): the pieces of s between occurrences of c
RECURSIVE split_on(_, _)
split_on(s, c) ==
  IF \E i \in 1..Len(s) : s[i] = c
  THEN LET i == CHOOSE k \in 1..Len(s) : s[k] = c /\ \A j \in 1..(k - 1) : s[j] # c
       IN  <<SubSeq(s, 1, i - 1)>> \o split_on(SubSeq(s, i + 1, Len(s)), c)
  ELSE <<s>>

RECURSIVE NatStr(_)
NatStr(n) == IF n < 10 THEN <<48 + n>> ELSE NatStr(n \div 10) \o <<48 + (n % 10)>>

\* str(n), "{}".format(n) of an int
IntStr(n) == IF n < 0 THEN <<45>> \o NatStr(0 - n) ELSE NatStr(n)

\* The code points of the digits zero of Unicode 14.0.0: each is followed by its
\* digits one to nine.
DecimalZeros ==
  {48, 1632, 1776, 1984, 2406, 2534, 2662, 2790, 2918, 3046,
   3174, 3302, 3430, 3558, 3664, 3792, 3872, 4160, 4240, 6112,
   6160, 6470, 6608, 6784, 6800, 6992, 7088, 7232, 7248, 42528,
   43216, 43264, 43472, 43504, 43600, 44016, 65296, 66720, 68912, 69734,
   69872, 69942, 70096, 70384, 70736, 70864, 71248, 71360, 71472, 71904,
   72016, 72784, 73040, 73120, 92768, 92864, 93008, 120782, 120792, 120802,
   120812, 120822, 123200, 123632, 125264, 130032}

IsDecimal(c) == \E z \in DecimalZeros : c \in z..(z + 9)
DecimalOf(c) == c - (CHOOSE z \in DecimalZeros : c \in z..(z + 9))

\* What int() and float() make of a str before they parse it: in a str that is not
\* ASCII, white space above 127 becomes a blank and a decimal digit its ASCII digit;
\* any other code point above 127 cannot be part of a number.
ascii_number(s) ==
  [i \in 1..Len(s) |->
     IF s[i] < 128 THEN s[i]
     ELSE IF IsSpace(s[i]) THEN 32
     ELSE IF IsDecimal(s[i]) THEN 48 + DecimalOf(s[i])
     ELSE 63]

\* The number parsers skip the white space of the C locale at both ends.
RECURSIVE cstrip(_)
cstrip(s) ==
  IF s # <<>> /\ IsCSpace(Head(s)) THEN cstrip(Tail(s))
  ELSE IF s # <<>> /\ IsCSpace(s[Len(s)]) THEN cstrip(SubSeq(s, 1, Len(s) - 1))
  ELSE s

\* The digits of a Python numeric literal: single underscores may stand between them.
IsDigits(s) ==
  /\ s # <<>>
  /\ \A i \in 1..Len(s) : s[i] \in 48..57 \/ s[i] = 95
  /\ s[1] # 95 /\ s[Len(s)] # 95
  /\ \A i \in 1..(Len(s) - 1) : ~(s[i] = 95 /\ s[i + 1] = 95)

RECURSIVE DigitsVal(_)
DigitsVal(s) ==
  IF s = <<>> THEN 0
  ELSE IF s[Len(s)] = 95 THEN DigitsVal(SubSeq(s, 1, Len(s) - 1))
  ELSE 10 * DigitsVal(SubSeq(s, 1, Len(s) - 1)) + (s[Len(s)] - 48)

Unsigned(s) == IF s # <<>> /\ Head(s) \in {43, 45} THEN Tail(s) ELSE s
Sign(s) == IF s # <<>> /\ Head(s) = 45 THEN 0 - 1 ELSE 1

Digits(s) == SelectSeq(s, LAMBDA c : c # 95)

RECURSIVE NoLeadingZeros(_)
NoLeadingZeros(s) == IF s # <<>> /\ Head(s) = 48 THEN NoLeadingZeros(Tail(s)) ELSE s

\* a < b for two str
RECURSIVE str_less(_, _)
str_less(a, b) ==
  IF b = <<>> THEN FALSE
  ELSE IF a = <<>> THEN TRUE
  ELSE IF Head(a) # Head(b) THEN Head(a) < Head(b)
  ELSE str_less(Tail(a), Tail(b))

\* a < b for two naturals spelled in digits without leading zeros
digits_less(a, b) == Len(a) < Len(b) \/ (Len(a) = Len(b) /\ str_less(a, b))

\* The digits of the literal s that int accepts, without the leading zeros; the
\* literal spells an integer of at most nine digits.
IntDigits(s) == NoLeadingZeros(Digits(Unsigned(cstrip(ascii_number(s)))))
int_small(s) == Len(IntDigits(s)) <= 9

\* int(s): defined when int_ok(s), a ValueError otherwise.  int() refuses a
\* literal of more than 4300 digits (sys.int_info.default_max_str_digits), the
\* leading zeros counted and the sign, the blanks and the underscores not.  An
\* integer of ten digits or more is the record of its sign and digits.
int_ok(s) ==
  /\ IsDigits(Unsigned(cstrip(ascii_number(s))))
  /\ Len(Digits(Unsigned(cstrip(ascii_number(s))))) <= 4300
int_val(s) ==
  IF int_small(s) THEN Sign(cstrip(ascii_number(s))) * DigitsVal(IntDigits(s))
  ELSE [sign |-> Sign(cstrip(ascii_number(s))), digits |-> IntDigits(s)]

(***************************************************************************)
(* Integers of any size, where the code computes with what int() returned: *)
(* the record of a sign and of the digits without leading zeros; zero has  *)
(* no digit and the sign 1.                                                *)
(***************************************************************************)
Front(s) == IF s = <<>> THEN <<>> ELSE SubSeq(s, 1, Len(s) - 1)
LastDigit(s) == IF s = <<>> THEN 0 ELSE s[Len(s)] - 48

\* a + b + carry, a - b - borrow (a >= b) and a * d for naturals spelled in digits
RECURSIVE nat_add(_, _, _)
nat_add(a, b, carry) ==
  IF a = <<>> /\ b = <<>> THEN (IF carry = 0 THEN <<>> ELSE <<48 + carry>>)
  ELSE nat_add(Front(a), Front(b), (LastDigit(a) + LastDigit(b) + carry) \div 10)
         \o <<48 + ((LastDigit(a) + LastDigit(b) + carry) % 10)>>

RECURSIVE nat_sub_digits(_, _, _)
nat_sub_digits(a, b, borrow) ==
  IF a = <<>> THEN <<>>
  ELSE nat_sub_digits(Front(a), Front(b),
                      IF LastDigit(a) - LastDigit(b) - borrow < 0 THEN 1 ELSE 0)
         \o <<48 + ((LastDigit(a) - LastDigit(b) - borrow + 10) % 10)>>
nat_sub(a, b) == NoLeadingZeros(nat_sub_digits(a, b, 0))

RECURSIVE nat_mul_digit(_, _, _)
nat_mul_digit(a, d, carry) ==
  IF a = <<>> THEN (IF carry = 0 THEN <<>> ELSE <<48 + carry>>)
  ELSE nat_mul_digit(Front(a), d, (LastDigit(a) * d + carry) \div 10)
         \o <<48 + ((LastDigit(a) * d + carry) % 10)>>

RECURSIVE nat_mul(_, _)
nat_mul(a, b) ==
  IF a = <<>> \/ b = <<>> THEN <<>>
  ELSE nat_add(NoLeadingZeros(nat_mul(a, Front(b)) \o <<48>>),
               NoLeadingZeros(nat_mul_digit(a, LastDigit(b), 0)), 0)

big_of(n) ==
  [sign |-> IF n < 0 THEN 0 - 1 ELSE 1,
   digits |-> IF n = 0 THEN <<>> ELSE NatStr(IF n < 0 THEN 0 - n ELSE n)]
\* int(s) when int_ok(s)
big_int(s) ==
  [sign |-> IF IntDigits(s) = <<>> THEN 1 ELSE Sign(cstrip(ascii_number(s))),
   digits |-> IntDigits(s)]
big_small(a) == Len(a.digits) <= 9
big_val(a) == a.sign * DigitsVal(a.digits)
\* the integer itself when it has at most nine digits, the record otherwise
big_plain(a) == IF big_small(a) THEN big_val(a) ELSE a
big_mul(a, b) ==
  [sign |-> IF a.digits = <<>> \/ b.digits = <<>> THEN 1 ELSE a.sign * b.sign,
   digits |-> nat_mul(a.digits, b.digits)]
\* a + 1
big_succ(a) ==
  IF a.sign > 0 THEN [sign |-> 1, digits |-> nat_add(a.digits, <<>>, 1)]
  ELSE [sign |-> IF a.digits = <<49>> THEN 1 ELSE 0 - 1,
        digits |-> nat_sub(a.digits, <<49>>)]
\* a <= b for two of these integers
big_le(a, b) ==
  IF a.sign # b.sign THEN a.sign < b.sign
  ELSE IF a.sign > 0 THEN ~digits_less(b.digits, a.digits)
  ELSE ~digits_less(a.digits, b.digits)

\* The integer is one of a C long long (64 bits), of a C int (32 bits).
Int64Max == <<57, 50, 50, 51, 51, 55, 50, 48, 51, 54, 56, 53, 52, 55, 55, 53, 56, 48, 55>>
Int64Min == <<57, 50, 50, 51, 51, 55, 50, 48, 51, 54, 56, 53, 52, 55, 55, 53, 56, 48, 56>>
fits_int64(a) ==
  IF a.sign > 0 THEN ~digits_less(Int64Max, a.digits)
  ELSE ~digits_less(Int64Min, a.digits)

\* The low 32 bits of an integer of 64 bits, read as a C int: what a cast to int32
\* keeps.  The integer is taken in two halves of 16 bits.
RECURSIVE Limbs(_, _)
Limbs(ds, acc) ==
  IF ds = <<>> THEN acc
  ELSE Limbs(Tail(ds),
             [lo |-> (acc.lo * 10 + (Head(ds) - 48)) % 65536,
              hi |-> (acc.hi * 10 + (acc.lo * 10 + (Head(ds) - 48)) \div 65536) % 65536])
Negated(l) ==
  IF l.lo = 0 THEN [lo |-> 0, hi |-> (65536 - l.hi) % 65536]
  ELSE [lo |-> 65536 - l.lo, hi |-> 65535 - l.hi]
Signed32(l) == (IF l.hi >= 32768 THEN l.hi - 65536 ELSE l.hi) * 65536 + l.lo
int32_of(a) ==
  Signed32(IF a.sign < 0 THEN Negated(Limbs(a.digits, [lo |-> 0, hi |-> 0]))
           ELSE Limbs(a.digits, [lo |-> 0, hi |-> 0]))

\* repr(x), "{}".format(x) of a float x = h/2
FloatRepr(h) ==
  LET a == IF h < 0 THEN 0 - h ELSE h
  IN  (IF h < 0 THEN <<45>> ELSE <<>>) \o NatStr(a \div 2) \o <<46>>
        \o (IF a % 2 = 1 THEN <<53>> ELSE <<48>>)

\* The parts of an unsigned float literal u: mantissa and exponent around "e" or
\* "E", the mantissa's digits before and after the point.
HasExponent(u) == \E i \in 1..Len(u) : u[i] \in {69, 101}
Mantissa(u) ==
  IF HasExponent(u)
  THEN SubSeq(u, 1, (CHOOSE i \in 1..Len(u) :
                       u[i] \in {69, 101} /\ \A j \in 1..(i - 1) : u[j] \notin {69, 101}) - 1)
  ELSE u
Exponent(u) == SubSeq(u, Len(Mantissa(u)) + 2, Len(u))
IntPart(u) == split_on(Mantissa(u), 46)[1]
FracPart(u) ==
  IF Len(split_on(Mantissa(u), 46)) = 2 THEN split_on(Mantissa(u), 46)[2] ELSE <<>>

\* u is an unsigned decimal float literal; underscores as Python allows them when us
FloatSyntax(u, us) ==
  /\ Len(split_on(Mantissa(u), 46)) \in {1, 2}
  /\ IntPart(u) # <<>> \/ FracPart(u) # <<>>
  /\ IntPart(u) = <<>> \/ IsDigits(IntPart(u))
  /\ FracPart(u) = <<>> \/ IsDigits(FracPart(u))
  /\ HasExponent(u) => IsDigits(Unsigned(Exponent(u)))
  /\ us \/ \A i \in 1..Len(u) : u[i] # 95

\* u in lower case; u is "inf", "infinity" or "nan"
Lower(u) == [i \in 1..Len(u) |-> IF u[i] \in 65..90 THEN u[i] + 32 ELSE u[i]]
IsInfinity(u) ==
  Lower(u) \in {<<105, 110, 102>>, <<105, 110, 102, 105, 110, 105, 116, 121>>}
IsNaN(u) == Lower(u) = <<110, 97, 110>>

RECURSIVE Pow10(_)
Pow10(n) == IF n <= 0 THEN 1 ELSE 10 * Pow10(n - 1)

RECURSIVE Pow2(_)
Pow2(n) == IF n <= 0 THEN 1 ELSE 2 * Pow2(n - 1)

RECURSIVE NoTrailingZeros(_)
NoTrailingZeros(s) ==
  IF s # <<>> /\ s[Len(s)] = 48 THEN NoTrailingZeros(SubSeq(s, 1, Len(s) - 1)) ELSE s

Zeros(n) == [i \in 1..n |-> 48]

\* The value of the literal u is Significand(u) * 10^Scale(u): the digits of the
\* mantissa without the zeros at either end, and the power of ten that scales them.
AllDigits(u) == NoLeadingZeros(Digits(IntPart(u) \o FracPart(u)))
Significand(u) == NoTrailingZeros(AllDigits(u))
ExponentDigits(u) == NoLeadingZeros(Digits(Unsigned(Exponent(u))))
Scale(u) ==
  Sign(Exponent(u)) * DigitsVal(ExponentDigits(u))
    - Len(Digits(FracPart(u))) + (Len(AllDigits(u)) - Len(Significand(u)))

\* The exponent of the literal alone puts its value beyond every float.
HugeExponent(u) == Len(ExponentDigits(u)) > 6

\* The value of the literal u is a whole number of halves below 10^9.
InHalves(u) ==
  \/ Significand(u) = <<>>
  \/ /\ Len(Significand(u)) <= 9
     /\ Len(ExponentDigits(u)) <= 4
     /\ IF Scale(u) >= 0
        THEN Len(Significand(u)) + Scale(u) <= 9
        ELSE /\ 0 - Scale(u) <= 9
             /\ (2 * DigitsVal(Significand(u))) % Pow10(0 - Scale(u)) = 0

LiteralHalves(u) ==
  IF Significand(u) = <<>> THEN 0
  ELSE IF Scale(u) >= 0 THEN 2 * DigitsVal(Significand(u)) * Pow10(Scale(u))
  ELSE (2 * DigitsVal(Significand(u))) \div Pow10(0 - Scale(u))

\* s * 10^k >= v and s * 10^k <= v, for naturals s and v spelled in digits without
\* leading zeros, s not zero: by the number of digits, then digit by digit.
AtLeast(s, k, v) ==
  LET ls == Len(s) + (IF k > 0 THEN k ELSE 0)
      lv == Len(v) + (IF k < 0 THEN 0 - k ELSE 0)
  IN  IF ls # lv THEN ls > lv
      ELSE ~str_less(s \o Zeros(lv - Len(s)), v \o Zeros(lv - Len(v)))
AtMost(s, k, v) ==
  LET ls == Len(s) + (IF k > 0 THEN k ELSE 0)
      lv == Len(v) + (IF k < 0 THEN 0 - k ELSE 0)
  IN  IF ls # lv THEN ls < lv
      ELSE ~str_less(v \o Zeros(lv - Len(v)), s \o Zeros(lv - Len(s)))

\* Where a decimal number stops being a finite double or float: from
\* 2^1024 - 2^970 (2^128 - 2^103) on it rounds to an infinity, and at
\* 5^1075 * 10^-1075 = 2^-1075 (5^150 * 10^-150 = 2^-150) or less it rounds to zero.
Float64Overflow ==
  <<
    49, 55, 57, 55, 54, 57, 51, 49, 51, 52, 56, 54, 50, 51, 49, 53, 56, 48, 55, 57,
    51, 55, 50, 56, 57, 55, 49, 52, 48, 53, 51, 48, 51, 52, 49, 53, 48, 55, 57, 57,
    51, 52, 49, 51, 50, 55, 49, 48, 48, 51, 55, 56, 50, 54, 57, 51, 54, 49, 55, 51,
    55, 55, 56, 57, 56, 48, 52, 52, 52, 57, 54, 56, 50, 57, 50, 55, 54, 52, 55, 53,
    48, 57, 52, 54, 54, 52, 57, 48, 49, 55, 57, 55, 55, 53, 56, 55, 50, 48, 55, 48,
    57, 54, 51, 51, 48, 50, 56, 54, 52, 49, 54, 54, 57, 50, 56, 56, 55, 57, 49, 48,
    57, 52, 54, 53, 53, 53, 53, 52, 55, 56, 53, 49, 57, 52, 48, 52, 48, 50, 54, 51,
    48, 54, 53, 55, 52, 56, 56, 54, 55, 49, 53, 48, 53, 56, 50, 48, 54, 56, 49, 57,
    48, 56, 57, 48, 50, 48, 48, 48, 55, 48, 56, 51, 56, 51, 54, 55, 54, 50, 55, 51,
    56, 53, 52, 56, 52, 53, 56, 49, 55, 55, 49, 49, 53, 51, 49, 55, 54, 52, 52, 55,
    53, 55, 51, 48, 50, 55, 48, 48, 54, 57, 56, 53, 53, 53, 55, 49, 51, 54, 54, 57,
    53, 57, 54, 50, 50, 56, 52, 50, 57, 49, 52, 56, 49, 57, 56, 54, 48, 56, 51, 52,
    57, 51, 54, 52, 55, 53, 50, 57, 50, 55, 49, 57, 48, 55, 52, 49, 54, 56, 52, 52,
    52, 51, 54, 53, 53, 49, 48, 55, 48, 52, 51, 52, 50, 55, 49, 49, 53, 53, 57, 54,
    57, 57, 53, 48, 56, 48, 57, 51, 48, 52, 50, 56, 56, 48, 49, 55, 55, 57, 48, 52,
    49, 55, 52, 52, 57, 55, 55, 57, 50>>

Float64Underflow ==
  <<
    50, 52, 55, 48, 51, 50, 56, 50, 50, 57, 50, 48, 54, 50, 51, 50, 55, 50, 48, 56,
    56, 50, 56, 52, 51, 57, 54, 52, 51, 52, 49, 49, 48, 54, 56, 54, 49, 56, 50, 53,
    50, 57, 57, 48, 49, 51, 48, 55, 49, 54, 50, 51, 56, 50, 50, 49, 50, 55, 57, 50,
    56, 52, 49, 50, 53, 48, 51, 51, 55, 55, 53, 51, 54, 51, 53, 49, 48, 52, 51, 55,
    53, 57, 51, 50, 54, 52, 57, 57, 49, 56, 49, 56, 48, 56, 49, 55, 57, 57, 54, 49,
    56, 57, 56, 57, 56, 50, 56, 50, 51, 52, 55, 55, 50, 50, 56, 53, 56, 56, 54, 53,
    52, 54, 51, 51, 50, 56, 51, 53, 53, 49, 55, 55, 57, 54, 57, 56, 57, 56, 49, 57,
    57, 51, 56, 55, 51, 57, 56, 48, 48, 53, 51, 57, 48, 57, 51, 57, 48, 54, 51, 49,
    53, 48, 51, 53, 54, 53, 57, 53, 49, 53, 53, 55, 48, 50, 50, 54, 51, 57, 50, 50,
    57, 48, 56, 53, 56, 51, 57, 50, 52, 52, 57, 49, 48, 53, 49, 56, 52, 52, 51, 53,
    57, 51, 49, 56, 48, 50, 56, 52, 57, 57, 51, 54, 53, 51, 54, 49, 53, 50, 53, 48,
    48, 51, 49, 57, 51, 55, 48, 52, 53, 55, 54, 55, 56, 50, 52, 57, 50, 49, 57, 51,
    54, 53, 54, 50, 51, 54, 54, 57, 56, 54, 51, 54, 53, 56, 52, 56, 48, 55, 53, 55,
    48, 48, 49, 53, 56, 53, 55, 54, 57, 50, 54, 57, 57, 48, 51, 55, 48, 54, 51, 49,
    49, 57, 50, 56, 50, 55, 57, 53, 53, 56, 53, 53, 49, 51, 51, 50, 57, 50, 55, 56,
    51, 52, 51, 51, 56, 52, 48, 57, 51, 53, 49, 57, 55, 56, 48, 49, 53, 53, 51, 49,
    50, 52, 54, 53, 57, 55, 50, 54, 51, 53, 55, 57, 53, 55, 52, 54, 50, 50, 55, 54,
    54, 52, 54, 53, 50, 55, 50, 56, 50, 55, 50, 50, 48, 48, 53, 54, 51, 55, 52, 48,
    48, 54, 52, 56, 53, 52, 57, 57, 57, 55, 55, 48, 57, 54, 53, 57, 57, 52, 55, 48,
    52, 53, 52, 48, 50, 48, 56, 50, 56, 49, 54, 54, 50, 50, 54, 50, 51, 55, 56, 53,
    55, 51, 57, 51, 52, 53, 48, 55, 51, 54, 51, 51, 57, 48, 48, 55, 57, 54, 55, 55,
    54, 49, 57, 51, 48, 53, 55, 55, 53, 48, 54, 55, 52, 48, 49, 55, 54, 51, 50, 52,
    54, 55, 51, 54, 48, 48, 57, 54, 56, 57, 53, 49, 51, 52, 48, 53, 51, 53, 53, 51,
    55, 52, 53, 56, 53, 49, 54, 54, 54, 49, 49, 51, 52, 50, 50, 51, 55, 54, 54, 54,
    55, 56, 54, 48, 52, 49, 54, 50, 49, 53, 57, 54, 56, 48, 52, 54, 49, 57, 49, 52,
    52, 54, 55, 50, 57, 49, 56, 52, 48, 51, 48, 48, 53, 51, 48, 48, 53, 55, 53, 51,
    48, 56, 52, 57, 48, 52, 56, 55, 54, 53, 51, 57, 49, 55, 49, 49, 51, 56, 54, 53,
    57, 49, 54, 52, 54, 50, 51, 57, 53, 50, 52, 57, 49, 50, 54, 50, 51, 54, 53, 51,
    56, 56, 49, 56, 55, 57, 54, 51, 54, 50, 51, 57, 51, 55, 51, 50, 56, 48, 52, 50,
    51, 56, 57, 49, 48, 49, 56, 54, 55, 50, 51, 52, 56, 52, 57, 55, 54, 54, 56, 50,
    51, 53, 48, 56, 57, 56, 54, 51, 51, 56, 56, 53, 56, 55, 57, 50, 53, 54, 50, 56,
    51, 48, 50, 55, 53, 53, 57, 57, 53, 54, 53, 55, 53, 50, 52, 52, 53, 53, 53, 48,
    55, 50, 53, 53, 49, 56, 57, 51, 49, 51, 54, 57, 48, 56, 51, 54, 50, 53, 52, 55,
    55, 57, 49, 56, 54, 57, 52, 56, 54, 54, 55, 57, 57, 52, 57, 54, 56, 51, 50, 52,
    48, 52, 57, 55, 48, 53, 56, 50, 49, 48, 50, 56, 53, 49, 51, 49, 56, 53, 52, 53,
    49, 51, 57, 54, 50, 49, 51, 56, 51, 55, 55, 50, 50, 56, 50, 54, 49, 52, 53, 52,
    51, 55, 54, 57, 51, 52, 49, 50, 53, 51, 50, 48, 57, 56, 53, 57, 49, 51, 50, 55,
    54, 54, 55, 50, 51, 54, 51, 50, 56, 49, 50, 53>>

Float32Overflow ==
  <<
    51, 52, 48, 50, 56, 50, 51, 53, 54, 55, 55, 57, 55, 51, 51, 54, 54, 49, 54, 51,
    55, 53, 51, 57, 51, 57, 53, 52, 53, 56, 49, 52, 50, 53, 54, 56, 52, 52, 56>>

Float32Underflow ==
  <<
    55, 48, 48, 54, 52, 57, 50, 51, 50, 49, 54, 50, 52, 48, 56, 53, 51, 53, 52, 54,
    49, 56, 54, 52, 55, 57, 49, 54, 52, 52, 57, 53, 56, 48, 54, 53, 54, 52, 48, 49,
    51, 48, 57, 55, 48, 57, 51, 56, 50, 53, 55, 56, 56, 53, 56, 55, 56, 53, 51, 52,
    49, 52, 49, 57, 52, 52, 56, 57, 53, 53, 52, 49, 51, 52, 50, 57, 51, 48, 51, 48,
    48, 55, 52, 51, 51, 49, 57, 48, 57, 52, 49, 56, 49, 48, 54, 48, 55, 57, 49, 48,
    49, 53, 54, 50, 53>>
NaN == [special |-> "nan"]
Infinity(sign) == [special |-> "inf", sign |-> sign]
\* 0.0 is the number 0 of the halves, -0.0 is apart from it
Zero(sign) == IF sign < 0 THEN [special |-> "zero", sign |-> 0 - 1] ELSE 0

\* The decimal number a literal spells, which stands for the double nearest to it.
Decimal(w) ==
  [sign |-> Sign(w), digits |-> Significand(Unsigned(w)),
   exponent |-> <<Sign(Exponent(Unsigned(w))), ExponentDigits(Unsigned(w))>>,
   point |-> Len(Digits(FracPart(Unsigned(w))))
               - (Len(AllDigits(Unsigned(w))) - Len(Significand(Unsigned(w))))]

\* The double a literal w denotes, w stripped and in ASCII: a whole number of halves
\* when the value is one; otherwise the infinity, NaN or negative zero it names or
\* rounds to, or the decimal number it spells.
FloatOf(w) ==
  LET u == Unsigned(w)
  IN  IF IsNaN(u) THEN NaN
      ELSE IF IsInfinity(u) THEN Infinity(Sign(w))
      ELSE IF Significand(u) = <<>> THEN Zero(Sign(w))
      ELSE IF HugeExponent(u)
      THEN (IF Sign(Exponent(u)) > 0 THEN Infinity(Sign(w)) ELSE Zero(Sign(w)))
      ELSE IF InHalves(u) THEN Sign(w) * LiteralHalves(u)
      ELSE IF AtLeast(Significand(u), Scale(u), Float64Overflow) THEN Infinity(Sign(w))
      ELSE IF AtMost(Significand(u), Scale(u) + 1075, Float64Underflow) THEN Zero(Sign(w))
      ELSE Decimal(w)

\* The nearest float of 24 bits of mantissa to h/2, ties to even.
BitLength(a) == CHOOSE b \in 1..31 : Pow2(b - 1) <= a /\ (b = 31 \/ a < Pow2(b))
RoundTo24(a) ==
  IF a < 16777216 THEN a
  ELSE LET q == Pow2(BitLength(a) - 24)
           r == a % q
       IN  IF 2 * r > q \/ (2 * r = q /\ ((a - r) \div q) % 2 = 1) THEN a - r + q
           ELSE a - r
Float32Halves(h) == IF h < 0 THEN 0 - RoundTo24(0 - h) ELSE RoundTo24(h)

\* The float32 a literal w denotes: the double it denotes, rounded to float32.
Float32Of(w) ==
  LET u == Unsigned(w)
  IN  IF IsNaN(u) THEN NaN
      ELSE IF IsInfinity(u) THEN Infinity(Sign(w))
      ELSE IF Significand(u) = <<>> THEN Zero(Sign(w))
      ELSE IF HugeExponent(u)
      THEN (IF Sign(Exponent(u)) > 0 THEN Infinity(Sign(w)) ELSE Zero(Sign(w)))
      ELSE IF InHalves(u) THEN Float32Halves(Sign(w) * LiteralHalves(u))
      ELSE IF AtLeast(Significand(u), Scale(u), Float32Overflow) THEN Infinity(Sign(w))
      ELSE IF AtMost(Significand(u), Scale(u) + 150, Float32Underflow) THEN Zero(Sign(w))
      ELSE [single |-> Decimal(w)]

(***************************************************************************)
(* Numbers as the bytes a little-endian host keeps them in: what           *)
(* ndarray.tofile writes and numpy.fromfile reads.                         *)
(***************************************************************************)
\* The eight bytes of the IEEE-754 double h/2 on a little-endian host: the sign,
\* eleven bits of exponent 1021 + the bit length of |h|, and the bits of |h|
\* after the leading one, which fill the top of the fraction.
F64Bytes(h) ==
  IF h = 0 THEN <<0, 0, 0, 0, 0, 0, 0, 0>>
  ELSE LET a == IF h < 0 THEN 0 - h ELSE h
           e == 1021 + BitLength(a)
           t == a * Pow2(31 - BitLength(a))
       IN  <<0, 0, (t % 4) * 64, (t \div 4) % 256, (t \div 1024) % 256,
             (t \div 262144) % 256, (e % 16) * 16 + ((t \div 67108864) % 16),
             (IF h < 0 THEN 128 ELSE 0) + (e \div 16)>>

\* The double the eight bytes b hold: a whole number of halves when it is one of
\* at most 31 bits, a zero, an infinity or NaN, and otherwise the bytes themselves.
F64Val(b) ==
  LET e == (b[8] % 128) * 16 + (b[7] \div 16)
      sign == IF b[8] >= 128 THEN 0 - 1 ELSE 1
      low == b[1] = 0 /\ b[2] = 0 /\ b[3] % 64 = 0
      t == 1073741824 + (b[7] % 16) * 67108864 + b[6] * 262144 + b[5] * 1024
             + b[4] * 4 + (b[3] \div 64)
  IN  IF e = 0 /\ low /\ t = 1073741824 THEN Zero(sign)
      ELSE IF e = 2047
      THEN (IF low /\ t = 1073741824 THEN Infinity(sign) ELSE NaN)
      ELSE IF low /\ e >= 1022 /\ e <= 1052 /\ t % Pow2(1052 - e) = 0
      THEN sign * (t \div Pow2(1052 - e))
      ELSE [f64 |-> b]

\* The four bytes of the float32 h/2 and the two of the float16 h/2: the sign, the
\* exponent 125 (13) + the bit length of |h|, and the bits of |h| after the
\* leading one at the top of the fraction.
F32Fraction(a) ==
  (IF BitLength(a) <= 24 THEN a * Pow2(24 - BitLength(a))
   ELSE a \div Pow2(BitLength(a) - 24)) - 8388608
F32Bytes(h) ==
  IF h = 0 THEN <<0, 0, 0, 0>>
  ELSE <<F32Fraction(IF h < 0 THEN 0 - h ELSE h) % 256,
         (F32Fraction(IF h < 0 THEN 0 - h ELSE h) \div 256) % 256,
         ((125 + BitLength(IF h < 0 THEN 0 - h ELSE h)) % 2) * 128
           + F32Fraction(IF h < 0 THEN 0 - h ELSE h) \div 65536,
         (IF h < 0 THEN 128 ELSE 0)
           + (125 + BitLength(IF h < 0 THEN 0 - h ELSE h)) \div 2>>
F16Fraction(a) ==
  (IF BitLength(a) <= 11 THEN a * Pow2(11 - BitLength(a))
   ELSE a \div Pow2(BitLength(a) - 11)) - 1024
F16Bytes(h) ==
  IF h = 0 THEN <<0, 0>>
  ELSE <<F16Fraction(IF h < 0 THEN 0 - h ELSE h) % 256,
         (IF h < 0 THEN 128 ELSE 0)
           + (13 + BitLength(IF h < 0 THEN 0 - h ELSE h)) * 4
           + F16Fraction(IF h < 0 THEN 0 - h ELSE h) \div 256>>

\* The float32 the four bytes b hold: a whole number of halves when it is one, a
\* zero, an infinity or NaN, and otherwise the bytes themselves.  e is the
\* exponent field and t the 24 bits of the significand.
F32Halves(b, sign, e, t) ==
  IF e = 0 /\ t = 8388608 THEN Zero(sign)
  ELSE IF e = 255 THEN (IF t = 8388608 THEN Infinity(sign) ELSE NaN)
  ELSE IF e >= 150 /\ e <= 156 THEN sign * (t * Pow2(e - 149))
  ELSE IF e >= 126 /\ e <= 149 /\ t % Pow2(149 - e) = 0
  THEN sign * (t \div Pow2(149 - e))
  ELSE [f32 |-> b]
F32Val(b) ==
  F32Halves(b, IF b[4] >= 128 THEN 0 - 1 ELSE 1, (b[4] % 128) * 2 + (b[3] \div 128),
            8388608 + (b[3] % 128) * 65536 + b[2] * 256 + b[1])

\* The eight bytes of the integer v in two's complement; an integer of n bytes
\* is the n low ones.
IntBytes(v, n) ==
  SubSeq(<<v % 256, (v \div 256) % 256, (v \div 65536) % 256, (v \div 16777216) % 256>>
           \o (IF v < 0 THEN <<255, 255, 255, 255>> ELSE <<0, 0, 0, 0>>), 1, n)

\* The integer that four bytes and that eight bytes hold in two's complement; the
\* one of eight bytes is the record of its sign and digits from ten digits on.
Int32Val(b) ==
  (IF b[4] >= 128 THEN b[4] - 256 ELSE b[4]) * 16777216 + b[3] * 65536 + b[2] * 256 + b[1]
Inverted(b) == [i \in 1..Len(b) |-> 255 - b[i]]
RECURSIVE Incremented(_)
Incremented(b) ==
  IF b = <<>> THEN <<>>
  ELSE IF Head(b) = 255 THEN <<0>> \o Incremented(Tail(b))
  ELSE <<Head(b) + 1>> \o Tail(b)
\* the digits of the natural that the bytes b spell, the low byte first
RECURSIVE BytesDigits(_)
BytesDigits(b) ==
  IF b = <<>> THEN <<>>
  ELSE NoLeadingZeros(nat_add(nat_mul(BytesDigits(Tail(b)), <<50, 53, 54>>),
                              IF Head(b) = 0 THEN <<>> ELSE NatStr(Head(b)), 0))
Int64Val(b) ==
  big_plain(IF b[8] >= 128
            THEN [sign |-> 0 - 1, digits |-> BytesDigits(Incremented(Inverted(b)))]
            ELSE [sign |-> 1, digits |-> BytesDigits(b)])

\* One element x of an array of dtype dt as bytes, and the element of dtype dt
\* that the bytes b hold.
ElemBytes(dt, x) ==
  CASE dt = "float64" -> F64Bytes(x)
    [] dt = "float32" -> F32Bytes(x)
    [] dt = "float16" -> F16Bytes(x)
    [] OTHER -> IntBytes(x, IF dt = "int8" THEN 1 ELSE IF dt = "int16" THEN 2
                             ELSE IF dt = "int32" THEN 4 ELSE 8)
ElemVal(dt, b) ==
  CASE dt = "float64" -> F64Val(b)
    [] dt = "float32" -> F32Val(b)
    [] dt = "int32" -> Int32Val(b)
    [] OTHER -> Int64Val(b)

\* float(s): defined when float_ok(s), a ValueError otherwise
float_ok(s) ==
  \/ IsNaN(Unsigned(cstrip(ascii_number(s))))
  \/ IsInfinity(Unsigned(cstrip(ascii_number(s))))
  \/ FloatSyntax(Unsigned(cstrip(ascii_number(s))), TRUE)
float_val(s) == FloatOf(cstrip(ascii_number(s)))

\* "%.16e" % x and "%.7e" % x of a float x = h/2: one digit, the point, prec digits
\* rounded half to even, and the exponent in two digits at least.
SigDigits(a) ==
  (IF a < 2 THEN <<>> ELSE NatStr(a \div 2)) \o (IF a % 2 = 1 THEN <<53>> ELSE <<>>)
Exp10(a) == IF a < 2 THEN 0 - 1 ELSE Len(NatStr(a \div 2)) - 1
RoundsUp(d, k) ==
  \/ d[k + 1] > 53
  \/ /\ d[k + 1] = 53
     /\ \/ \E i \in (k + 2)..Len(d) : d[i] # 48
        \/ (d[k] - 48) % 2 = 1
Rounded(d, k) ==
  IF Len(d) <= k THEN d \o Zeros(k - Len(d))
  ELSE IF RoundsUp(d, k) THEN nat_add(SubSeq(d, 1, k), <<>>, 1)
  ELSE SubSeq(d, 1, k)
FormatMantissa(h, d, prec) ==
  (IF h < 0 THEN <<45>> ELSE <<>>)
    \o <<d[1]>> \o (IF prec = 0 THEN <<>> ELSE <<46>>) \o SubSeq(d, 2, prec + 1)
FormatExponent(e) ==
  <<101, IF e < 0 THEN 45 ELSE 43>>
    \o (IF e < 10 /\ e > 0 - 10 THEN <<48>> ELSE <<>>)
    \o NatStr(IF e < 0 THEN 0 - e ELSE e)
\* a is the absolute value of h and d its digits rounded to prec + 1 places
FormatRounded(h, a, d, prec) ==
  FormatMantissa(h, d, prec)
    \o FormatExponent(IF a = 0 THEN 0
                      ELSE Exp10(a) + (IF Len(d) > prec + 1 THEN 1 ELSE 0))
FormatDigits(h, a, prec) == FormatRounded(h, a, Rounded(SigDigits(a), prec + 1), prec)
FormatE(h, prec) == FormatDigits(h, IF h < 0 THEN 0 - h ELSE h, prec)

(***************************************************************************)
(* numpy arrays: a shape, a dtype name and the elements in C order.  The   *)
(* elements of a float64 array are halves, those of an int64 array are the *)
(* integers themselves.                                                    *)
(***************************************************************************)
Arr(sh, dt, fl) == [shape |-> sh, dtype |-> dt, flat |-> fl]

RECURSIVE Prod(_)
Prod(sh) == IF sh = <<>> THEN 1 ELSE Head(sh) * Prod(Tail(sh))

NumRows(a) == a.shape[1]
RowLen(a) == IF Len(a.shape) > 1 THEN a.shape[2] ELSE 1
Row(a, i) == SubSeq(a.flat, (i - 1) * RowLen(a) + 1, i * RowLen(a))

RECURSIVE Concat(_)
Concat(ss) == IF ss = <<>> THEN <<>> ELSE Head(ss) \o Concat(Tail(ss))

(***************************************************************************)
(* The XDMF time series.  State of one writer session (TimeSeriesWriter),  *)
(* of the files it leaves behind, and of one reader session                *)
(* (TimeSeriesReader) on them.                                             *)
(***************************************************************************)
VARIABLES
  w_pc,          \* writer session: "init" (constructed), "entered", "exited", "absent"
  data_format,   \* TimeSeriesWriter.data_format
  data_counter,  \* TimeSeriesWriter.data_counter
  has_mesh,      \* TimeSeriesWriter.has_mesh
  mesh_name,     \* TimeSeriesWriter.mesh_name ("None" until set)
  domain,        \* the Grid children of the writer's Domain after the collection grid
  collection,    \* the children of the writer's temporal collection grid
  h5_file,       \* TimeSeriesWriter.h5_file: 0 when the attribute is unset, else a handle
  handles,       \* every h5py.File object opened so far: path, open, number of close calls
  heavy,         \* heavy data written outside the XML file: sidecar files and datasets
  disk,          \* the XML file as write_xml last left it
  cells_arg,     \* the caller's cells mapping, handed to write_points_cells by reference
  w_ret,         \* outcome of the writer's last call
  w_log,         \* the arguments of the write_data calls that returned, in order
  mesh_ok,       \* number of write_points_cells calls that returned
  r_pc,          \* reader session: "none", "open", "exited"
  r_collection,  \* TimeSeriesReader.collection
  num_steps,     \* TimeSeriesReader.num_steps
  r_mesh_grid,   \* TimeSeriesReader.mesh_grid
  r_cells,       \* TimeSeriesReader.cells: [set |-> FALSE] is None
  hdf5_files,    \* TimeSeriesReader.hdf5_files: path -> handle
  r_mesh_read,   \* whether a read_points_cells call has returned
  r_ret          \* outcome of the reader's last call

xvars == <<w_pc, data_format, data_counter, has_mesh, mesh_name, domain, collection,
           h5_file, handles, heavy, disk, cells_arg, w_ret, w_log, mesh_ok,
           r_pc, r_collection, num_steps, r_mesh_grid, r_cells, hdf5_files,
           r_mesh_read, r_ret>>

\* Names of the files of one session: TimeSeriesWriter(filename="out.xdmf")
Stem == <<111, 117, 116>>                       \* os.path.splitext(filename)[0]: "out"
H5Name == Stem \o <<46, 104, 53>>               \* "out.h5"
BinName(n) == Stem \o IntStr(n) \o <<46, 98, 105, 110>>   \* "out<n>.bin"
DatasetName(n) == <<100, 97, 116, 97>> \o IntStr(n)       \* "data<n>"

(***************************************************************************)
(* The static tables of xdmf/common.py.                                    *)
(***************************************************************************)
numpy_to_xdmf_dtype_ok(dt) == dt \in {"int32", "int64", "float32", "float64"}
numpy_to_xdmf_dtype(dt) ==
  CASE dt = "int32" -> <<"Int", "4">>
    [] dt = "int64" -> <<"Int", "8">>
    [] dt = "float32" -> <<"Float", "4">>
    [] OTHER -> <<"Float", "8">>

\* xdmf_to_numpy_type is numpy_to_xdmf_dtype read from right to left
xdmf_to_numpy_type_ok(dt, prec) ==
  <<dt, prec>> \in {<<"Float", "4">>, <<"Float", "8">>, <<"Int", "4">>, <<"Int", "8">>}
xdmf_to_numpy_type(dt, prec) ==
  IF dt = "Float" THEN (IF prec = "4" THEN "float32" ELSE "float64")
  ELSE (IF prec = "4" THEN "int32" ELSE "int64")

\* the format numpy.savetxt is given for a dtype
dtype_to_format_string_ok(dt) == dt \in {"int32", "int64", "float32", "float64"}
dtype_to_format_string(dt) ==
  CASE dt = "float32" -> "%.7e"
    [] dt = "float64" -> "%.16e"
    [] OTHER -> "%d"

\* numpy.dtype(dt).kind == "f", numpy.dtype(dt).itemsize
IsFloating(dt) == dt \in {"float16", "float32", "float64"}
ItemSize(dt) ==
  CASE dt = "int8" -> 1
    [] dt \in {"int16", "float16"} -> 2
    [] dt \in {"int32", "float32"} -> 4
    [] OTHER -> 8

meshio_to_xdmf_type(t) ==
  CASE t = "vertex" -> "Polyvertex"
    [] t = "line" -> "Polyline"
    [] t = "triangle" -> "Triangle"
    [] OTHER -> "Quadrilateral"

xdmf_to_meshio_type_ok(x) == x \in {"Polyvertex", "Polyline", "Triangle", "Quadrilateral"}
xdmf_to_meshio_type(x) ==
  CASE x = "Polyvertex" -> "vertex"
    [] x = "Polyline" -> "line"
    [] x = "Triangle" -> "triangle"
    [] OTHER -> "quad"

meshio_type_to_xdmf_index(t) ==
  CASE t = "vertex" -> 1
    [] t = "line" -> 2
    [] t = "triangle" -> 4
    [] OTHER -> 5

xdmf_idx_known(i) == i \in {1, 2, 4, 5}
xdmf_idx_to_meshio_type(i) ==
  CASE i = 1 -> "vertex" [] i = 2 -> "line" [] i = 4 -> "triangle" [] OTHER -> "quad"
xdmf_idx_to_num_nodes(i) ==
  CASE i = 1 -> 1 [] i = 2 -> 2 [] i = 4 -> 3 [] OTHER -> 4

attribute_type(data) ==
  IF Len(data.shape) = 1 \/ (Len(data.shape) = 2 /\ data.shape[2] = 1) THEN "Scalar"
  ELSE IF Len(data.shape) = 2 /\ data.shape[2] \in {2, 3} THEN "Vector"
  ELSE IF Len(data.shape) = 2 /\ data.shape[2] = 9 THEN "Tensor"
  ELSE "Matrix"

(***************************************************************************)
(* The dtype of an array put together from arrays of several dtypes        *)
(* (numpy.concatenate), for signed integers and floats, and the values     *)
(* carried over to it.                                                     *)
(***************************************************************************)
FloatOfSize(n) == CASE n = 2 -> "float16" [] n = 4 -> "float32" [] OTHER -> "float64"
\* the size of the smallest float that holds every integer of n bytes
FloatFor(n) == IF n = 1 THEN 2 ELSE IF n = 2 THEN 4 ELSE 8
promote_types(a, b) ==
  IF IsFloating(a) = IsFloating(b)
  THEN (IF ItemSize(a) >= ItemSize(b) THEN a ELSE b)
  ELSE LET f == IF IsFloating(a) THEN a ELSE b
           i == IF IsFloating(a) THEN b ELSE a
       IN  FloatOfSize(IF ItemSize(f) >= FloatFor(ItemSize(i)) THEN ItemSize(f)
                       ELSE FloatFor(ItemSize(i)))
RECURSIVE result_type(_)
result_type(dts) ==
  IF Len(dts) = 1 THEN dts[1]
  ELSE promote_types(result_type(SubSeq(dts, 1, Len(dts) - 1)), dts[Len(dts)])

\* a.astype(dt) where dt is a.dtype or one that result_type gave
astype(a, dt) ==
  IF IsFloating(dt) /\ ~IsFloating(a.dtype)
  THEN Arr(a.shape, dt, [i \in 1..Len(a.flat) |->
                           IF dt = "float32" THEN Float32Halves(2 * a.flat[i])
                           ELSE 2 * a.flat[i]])
  ELSE Arr(a.shape, dt, a.flat)

\* numpy.insert(a, 0, v, axis=1) of a two-dimensional array: a column of the
\* integer v, as a value of a's dtype
insert_col0(a, v) ==
  Arr(<<a.shape[1], a.shape[2] + 1>>, a.dtype,
      Concat([i \in 1..NumRows(a) |->
                <<IF IsFloating(a.dtype) THEN 2 * v ELSE v>> \o Row(a, i)]))

(***************************************************************************)
(* Heavy data, write side.                                                 *)
(***************************************************************************)
\* fmt % v for one element v of an array
FormatValue(fmt, v) ==
  CASE fmt = "%.7e" -> FormatE(v, 7)
    [] fmt = "%.16e" -> FormatE(v, 16)
    [] OTHER -> IntStr(v)

\* numpy.savetxt(s, data.flatten(), fmt): one formatted value per line
RECURSIVE savetxt(_, _)
savetxt(fmt, fl) ==
  IF fl = <<>> THEN <<>>
  ELSE FormatValue(fmt, Head(fl)) \o <<10>> \o savetxt(fmt, Tail(fl))

\* A data_counter that stays where it is.
StuckCounter(n) == n

\* The next value of data_counter after one array has been given a destination.
NextCounter(n) == n + 1

\* TimeSeriesWriter.numpy_to_xml_string.  hs = [counter, heavy] is the part of the
\* session the call reads and changes; the result carries the returned text.
numpy_to_xml_string(fmt, hs, data) ==
  CASE fmt = "XML" ->
         IF dtype_to_format_string_ok(data.dtype)
         THEN [exc |-> "None",
               text |-> savetxt(dtype_to_format_string(data.dtype), data.flat),
               counter |-> hs.counter, heavy |-> hs.heavy]
         ELSE [exc |-> "KeyError", text |-> <<>>, counter |-> hs.counter,
               heavy |-> hs.heavy]
    [] fmt = "Binary" ->
         [exc |-> "None", text |-> BinName(hs.counter),
          counter |-> NextCounter(hs.counter),
          heavy |-> Append(hs.heavy, [kind |-> "bin", dest |-> BinName(hs.counter),
                                      data |-> data])]
    [] OTHER ->
         [exc |-> "None", text |-> H5Name \o <<58, 47>> \o DatasetName(hs.counter),
          counter |-> NextCounter(hs.counter),
          heavy |-> Append(hs.heavy, [kind |-> "h5", dest |-> DatasetName(hs.counter),
                                      data |-> data])]

\* A Dimensions attribute that declares the number of elements, not the shape.
DimStringFlat(sh) == IntStr(Prod(sh))

\* " ".join(str(s) for s in shape), "{} {}".format(*shape)
RECURSIVE DimString(_)
DimString(sh) ==
  IF sh = <<>> THEN <<>>
  ELSE IF Len(sh) = 1 THEN IntStr(sh[1])
  ELSE IntStr(Head(sh)) \o <<32>> \o DimString(Tail(sh))

\* The DataItem element every writer method adds to its parent, and the session
\* after it: no element when the dtype is not in numpy_to_xdmf_dtype (KeyError),
\* an element without text when numpy_to_xml_string raises.
ItemElement(fmt, data, dim) ==
  [tag |-> "DataItem", DataType |-> numpy_to_xdmf_dtype(data.dtype)[1],
   Dimensions |-> dim, Format |-> fmt,
   Precision |-> numpy_to_xdmf_dtype(data.dtype)[2]]
\* e is the element without its text, r what numpy_to_xml_string gave
ItemWithText(e, r) ==
  [exc |-> r.exc,
   elems |-> <<IF r.exc = "None" THEN e @@ [text |-> r.text] ELSE e>>,
   hs |-> [counter |-> r.counter, heavy |-> r.heavy]]
DataItem(fmt, hs, data, dim) ==
  IF ~numpy_to_xdmf_dtype_ok(data.dtype)
  THEN [exc |-> "KeyError", elems |-> <<>>, hs |-> hs]
  ELSE ItemWithText(ItemElement(fmt, data, dim), numpy_to_xml_string(fmt, hs, data))

\* TimeSeriesWriter.points: a WriteError unless the points are 2- or 3-dimensional;
\* elems is what the call adds to the grid
points_ok(pts) == pts.shape[2] \in {2, 3}
\* d is the data item of the points
Geometry(pts, d) ==
  [exc |-> d.exc,
   elems |-> <<[tag |-> "Geometry",
                GeometryType |-> IF pts.shape[2] = 2 THEN "XY" ELSE "XYZ",
                children |-> d.elems]>>,
   hs |-> d.hs]
points(fmt, hs, pts) ==
  IF ~points_ok(pts) THEN [exc |-> "WriteError", elems |-> <<>>, hs |-> hs]
  ELSE Geometry(pts, DataItem(fmt, hs, pts, DimString(pts.shape)))

RECURSIVE SumSeq(_)
SumSeq(s) == IF s = <<>> THEN 0 ELSE Head(s) + SumSeq(Tail(s))

HasKey(cs, k) == \E i \in 1..Len(cs) : cs[i].type = k

\* cells["line"] = numpy.insert(cells["line"], 0, 2, axis=1)
PrependLineArity(cs) ==
  [i \in 1..Len(cs) |->
     IF cs[i].type = "line" THEN [type |-> "line", data |-> insert_col0(cs[i].data, 2)]
     ELSE cs[i]]

\* The Dimensions of a mixed topology, computed as TimeSeriesWriter.cells does.
MixedDim(cs) ==
  LET total_num_cells == SumSeq([i \in 1..Len(cs) |-> cs[i].data.shape[1]])
      total_num_cell_items == SumSeq([i \in 1..Len(cs) |-> Prod(cs[i].data.shape)])
      lines == IF HasKey(cs, "line")
               THEN (CHOOSE i \in 1..Len(cs) : cs[i].type = "line")
               ELSE 0
  IN  total_num_cell_items + total_num_cells
        + (IF lines = 0 THEN 0 ELSE PrependLineArity(cs)[lines].data.shape[1])

\* numpy.concatenate along the first axis
concatenate(as) ==
  LET dt == result_type([i \in 1..Len(as) |-> as[i].dtype])
  IN  Arr(<<SumSeq([i \in 1..Len(as) |-> as[i].shape[1]])>> \o Tail(as[1].shape),
          dt, Concat([i \in 1..Len(as) |-> astype(as[i], dt).flat]))

\* The mixed stream: every cell's XDMF type index before its (prefixed) nodes.
Flattened(a) == Arr(<<Len(a.flat)>>, a.dtype, a.flat)
MixedStream(cs) ==
  concatenate([i \in 1..Len(cs) |->
                 Flattened(insert_col0(cs[i].data,
                                       meshio_type_to_xdmf_index(cs[i].type)))])

\* TimeSeriesWriter.cells.  cs is the caller's mapping, a sequence of
\* [type, data] in iteration order; the result carries the mapping as the call
\* leaves it and what the call adds to the grid.
\* d is the data item of the topology, after the mapping as the call leaves it
Topology(type, cs, after, d) ==
  [exc |-> d.exc,
   elems |-> <<[tag |-> "Topology", TopologyType |-> type,
                NumberOfElements |->
                  IntStr(SumSeq([i \in 1..Len(cs) |-> cs[i].data.shape[1]])),
                children |-> d.elems]>>,
   hs |-> d.hs, cells |-> after]
MixedTopology(fmt, hs, cs, after) ==
  Topology("Mixed", cs, after,
           DataItem(fmt, hs, MixedStream(after), IntStr(MixedDim(cs))))
cells(fmt, hs, cs) ==
  IF Len(cs) = 1
  THEN Topology(meshio_to_xdmf_type(cs[1].type), cs, cs,
                DataItem(fmt, hs, cs[1].data, DimString(cs[1].data.shape)))
  ELSE IF Len(cs) > 1
  THEN MixedTopology(fmt, hs, cs, IF HasKey(cs, "line") THEN PrependLineArity(cs) ELSE cs)
  ELSE [exc |-> "None", elems |-> <<>>, hs |-> hs, cells |-> cs]

\* TimeSeriesWriter.point_data, and the loop of cell_data: one Attribute per
\* entry, in iteration order, up to the entry whose dtype raises
RECURSIVE attributes(_, _, _, _)
Attribute(center, entry, d) ==
  [tag |-> "Attribute", Name |-> entry.name,
   AttributeType |-> attribute_type(entry.data),
   Center |-> center, children |-> d.elems]
Attributes(att, rest) ==
  [exc |-> rest.exc, elems |-> <<att>> \o rest.elems, hs |-> rest.hs]
\* d is the data item of the first entry of pd
attributes_after(fmt, center, pd, d) ==
  IF d.exc # "None"
  THEN [exc |-> d.exc, elems |-> <<Attribute(center, Head(pd), d)>>, hs |-> d.hs]
  ELSE Attributes(Attribute(center, Head(pd), d),
                  attributes(fmt, d.hs, center, Tail(pd)))
attributes(fmt, hs, center, pd) ==
  IF pd = <<>> THEN [exc |-> "None", elems |-> <<>>, hs |-> hs]
  ELSE attributes_after(fmt, center, pd,
                        DataItem(fmt, hs, Head(pd).data, DimString(Head(pd).data.shape)))

(***************************************************************************)
(* Cell data between the mapping name -> cell type -> array and the raw    *)
(* mapping name -> array over all cells (meshio/_common.py).  A cell_data  *)
(* mapping is a sequence of [name, per_type], per_type a sequence of       *)
(* [type, data] in the order of the cells mapping.                         *)
(***************************************************************************)
raw_from_cell_data(cd) ==
  [j \in 1..Len(cd) |->
     [name |-> cd[j].name,
      data |-> concatenate([i \in 1..Len(cd[j].per_type) |-> cd[j].per_type[i].data])]]

\* d[r : r + n] along the first axis
RowSlice(d, r, n) ==
  LET lo == IF r < d.shape[1] THEN r ELSE d.shape[1]
      hi == IF r + n < d.shape[1] THEN r + n ELSE d.shape[1]
  IN  Arr(<<hi - lo>> \o Tail(d.shape), d.dtype,
          SubSeq(d.flat, lo * Prod(Tail(d.shape)) + 1, hi * Prod(Tail(d.shape))))

cell_data_from_raw(cs, raw) ==
  [j \in 1..Len(raw) |->
     [name |-> raw[j].name,
      per_type |->
        [i \in 1..Len(cs) |->
           [type |-> cs[i].type,
            data |-> RowSlice(raw[j].data,
                              SumSeq([k \in 1..(i - 1) |-> cs[k].data.shape[1]]),
                              cs[i].data.shape[1])]]]]

(***************************************************************************)
(* The writer's operations.                                                *)
(***************************************************************************)
PyStr(t) == IF t.ty = "int" THEN IntStr(t.v) ELSE FloatRepr(t.v)   \* "{}".format(t)
Halves(t) == IF t.ty = "int" THEN 2 * t.v ELSE t.v

Ret(op, exc) == [op |-> op, exc |-> exc]
Session == [counter |-> data_counter, heavy |-> heavy]
\* The element tree of the writer: Xdmf, its Domain, the collection grid that
\* __init__ creates and the grids appended after it.
xdmf_file(dom, col) ==
  [tag |-> "Xdmf", Version |-> <<51, 46, 48>>,
   children |->
     <<[tag |-> "Domain",
        children |-> <<[tag |-> "Grid", Name |-> "TimeSeries_meshio",
                        GridType |-> "Collection", CollectionType |-> "Temporal",
                        children |-> col]>> \o dom]>>]

\* The file write_xml leaves.
Tree(dom, col) == [written |-> TRUE, root |-> xdmf_file(dom, col)]

\* A write_data that never checks has_mesh.
write_data_never_raises(hm) == FALSE

\* write_data raises WriteError when the session has no mesh yet
write_data_raises(hm) == ~hm

\* The Grid element write_data appends to the collection before it checks has_mesh.
EmptyFrame == [tag |-> "Grid", children |-> <<>>]

\* TimeSeriesWriter.__enter__
Enter ==
  /\ w_pc = "init"
  /\ w_pc' = "entered"
  /\ IF data_format = "HDF"
     THEN /\ handles' = Append(handles, [path |-> H5Name, owner |-> "writer",
                                         open |-> TRUE, closes |-> 0])
          /\ h5_file' = Len(handles) + 1
     ELSE UNCHANGED <<handles, h5_file>>
  /\ w_ret' = Ret("__enter__", "None")
  /\ UNCHANGED <<data_format, data_counter, has_mesh, mesh_name, domain, collection,
                 heavy, disk, cells_arg, w_log, mesh_ok, r_pc, r_collection, num_steps,
                 r_mesh_grid, r_cells, hdf5_files, r_mesh_read, r_ret>>

\* TimeSeriesWriter.__exit__: self.h5_file.close()
Exit ==
  /\ w_pc = "entered"
  /\ w_pc' = "exited"
  /\ IF h5_file = 0
     THEN /\ w_ret' = Ret("__exit__", "AttributeError")
          /\ UNCHANGED handles
     ELSE /\ w_ret' = Ret("__exit__", "None")
          /\ handles' = [handles EXCEPT ![h5_file].open = FALSE,
                                        ![h5_file].closes = @ + 1]
  /\ UNCHANGED <<data_format, data_counter, has_mesh, mesh_name, domain, collection,
                 h5_file, heavy, disk, cells_arg, w_log, mesh_ok, r_pc, r_collection,
                 num_steps, r_mesh_grid, r_cells, hdf5_files, r_mesh_read, r_ret>>

\* The body of write_points_cells after the grid has been added to the domain:
\* self.points, then self.cells unless points raised.
\* g is what self.points gave, c what self.cells gave
GridParts(g, c) ==
  [exc |-> c.exc, elems |-> g.elems \o c.elems, hs |-> c.hs, cells |-> c.cells]
grid_after_points(fmt, cs, g) ==
  IF g.exc # "None"
  THEN [exc |-> g.exc, elems |-> g.elems, hs |-> g.hs, cells |-> cs]
  ELSE GridParts(g, cells(fmt, g.hs, cs))
mesh_grid_parts(fmt, hs, pts, cs) == grid_after_points(fmt, cs, points(fmt, hs, pts))

\* The grid in the domain and the session after self.points and self.cells gave
\* m; the file is written when neither raised.
grid_added(m) ==
  /\ domain' = Append(domain, [tag |-> "Grid", Name |-> "mesh",
                               GridType |-> "Uniform", children |-> m.elems])
  /\ cells_arg' = m.cells
  /\ data_counter' = m.hs.counter
  /\ heavy' = m.hs.heavy
  /\ w_ret' = Ret("write_points_cells", m.exc)
  /\ IF m.exc = "None"
     THEN /\ has_mesh' = TRUE
          /\ mesh_ok' = mesh_ok + 1
          /\ disk' = Tree(domain', collection)
     ELSE UNCHANGED <<has_mesh, mesh_ok, disk>>

\* TimeSeriesWriter.write_points_cells(points, cells)
write_points_cells(pts) ==
  /\ w_pc = "entered"
  /\ Len(domain) + Len(collection) < MaxCalls
  /\ mesh_name' = "mesh"
  /\ grid_added(mesh_grid_parts(data_format, Session, pts, cells_arg))
  /\ UNCHANGED <<w_pc, data_format, collection, h5_file, handles, w_log, r_pc,
                 r_collection, num_steps, r_mesh_grid, r_cells, hdf5_files,
                 r_mesh_read, r_ret>>

\* The body of write_data after the has_mesh check: the include and the Time
\* element, then point_data and cell_data when they are not empty.
FrameHead(name, t) ==
  <<[tag |-> "include", xpointer |-> name], [tag |-> "Time", Value |-> PyStr(t)]>>
\* p is what self.point_data gave, c what the loop of self.cell_data gave
FrameParts(name, t, p, c) ==
  [exc |-> c.exc, elems |-> FrameHead(name, t) \o p.elems \o c.elems, hs |-> c.hs]
frame_after_point_data(fmt, name, t, cd, p) ==
  IF p.exc # "None"
  THEN [exc |-> p.exc, elems |-> FrameHead(name, t) \o p.elems, hs |-> p.hs]
  ELSE FrameParts(name, t, p,
                  IF cd # <<>> THEN attributes(fmt, p.hs, "Cell", raw_from_cell_data(cd))
                  ELSE [exc |-> "None", elems |-> <<>>, hs |-> p.hs])
frame_parts(fmt, hs, name, t, pd, cd) ==
  frame_after_point_data(fmt, name, t, cd,
                         IF pd # <<>> THEN attributes(fmt, hs, "Node", pd)
                         ELSE [exc |-> "None", elems |-> <<>>, hs |-> hs])

\* The frame in the collection and the session after the body of write_data gave
\* f; the file is written when nothing raised.
frame_added(t, pd, cd, f) ==
  /\ collection' = Append(collection, [tag |-> "Grid", children |-> f.elems])
  /\ data_counter' = f.hs.counter
  /\ heavy' = f.hs.heavy
  /\ w_ret' = Ret("write_data", f.exc)
  /\ IF f.exc = "None"
     THEN /\ disk' = Tree(domain, collection')
          /\ w_log' = Append(w_log, [t |-> t, point_data |-> pd, cell_data |-> cd])
     ELSE UNCHANGED <<disk, w_log>>

\* TimeSeriesWriter.write_data(t, point_data, cell_data)
write_data(t, pd, cd) ==
  /\ w_pc = "entered"
  /\ Len(domain) + Len(collection) < MaxCalls
  /\ IF write_data_raises(has_mesh)
     THEN /\ collection' = Append(collection, EmptyFrame)
          /\ w_ret' = Ret("write_data", "WriteError")
          /\ UNCHANGED <<data_counter, heavy, disk, w_log>>
     ELSE frame_added(t, pd, cd,
                      frame_parts(data_format, Session, mesh_name, t, pd, cd))
  /\ UNCHANGED <<w_pc, data_format, has_mesh, mesh_name, domain, h5_file, handles,
                 cells_arg, mesh_ok, r_pc, r_collection, num_steps, r_mesh_grid,
                 r_cells, hdf5_files, r_mesh_read, r_ret>>

(***************************************************************************)
(* Heavy data, read side: TimeSeriesReader._read_data_item.                *)
(***************************************************************************)
NoData == Arr(<<0>>, "float64", <<>>)

\* e.attrib has the key a; for "text", e.text is not None
Has(e, a) == a \in DOMAIN e

\* ET.parse of the file written from the element e: an element whose text is
\* empty comes back with text None.
RECURSIVE parse(_)
parse(e) ==
  [a \in (IF Has(e, "text") /\ e.text = <<>> THEN DOMAIN e \ {"text"} ELSE DOMAIN e) |->
     IF a = "children" THEN [i \in 1..Len(e.children) |-> parse(e.children[i])]
     ELSE e[a]]

\* numpy.array([w], dtype): the conversion of one word, a ValueError when not
\* value_ok.  An integer that does not fit a C long is an OverflowError; one that
\* fits is cast to an int32 by its low 32 bits.
value_ok(dt, w) == IF IsFloating(dt) THEN float_ok(w) ELSE int_ok(w)
value_of(dt, w) ==
  CASE dt = "float32" -> Float32Of(cstrip(ascii_number(w)))
    [] dt = "float64" -> float_val(w)
    [] dt = "int32" -> int32_of(big_int(w))
    [] OTHER -> int_val(w)

\* The exception that the conversion of the word w to dt raises.
word_exc(dt, w) ==
  IF ~value_ok(dt, w) THEN "ValueError"
  ELSE IF ~IsFloating(dt) /\ ~fits_int64(big_int(w)) THEN "OverflowError"
  ELSE "None"

\* a.reshape(dims) of an array of n elements of itemsize bytes; dims are the
\* integers int() gave.  A negative dimension is the unknown one and is
\* inferred; a ValueError when not reshape_ok.
\* The product of the known dimensions, taken in order in 64 bits.
RECURSIVE KnownProd(_, _)
KnownProd(dims, acc) ==
  IF dims = <<>> THEN [ok |-> TRUE, v |-> acc]
  ELSE IF Head(dims).sign < 0 THEN KnownProd(Tail(dims), acc)
  ELSE IF ~fits_int64(big_mul(acc, Head(dims))) THEN [ok |-> FALSE, v |-> acc]
  ELSE KnownProd(Tail(dims), big_mul(acc, Head(dims)))
\* The dimension that is inferred for the unknown one.
Inferred(n, dims) ==
  IF n = 0 THEN 0 ELSE n \div big_val(KnownProd(dims, big_of(1)).v)
\* The dimensions of the new shape that are not zero.
ShapeNonzero(n, dims) ==
  SelectSeq([i \in 1..Len(dims) |->
               IF dims[i].sign < 0 THEN big_of(Inferred(n, dims)) ELSE dims[i]],
            LAMBDA d : d.digits # <<>>)
reshape_ok(n, dims, itemsize) ==
  LET s == KnownProd(dims, big_of(1))
  IN  /\ \A i \in 1..Len(dims) : fits_int64(dims[i])
      /\ Len(dims) <= 32
      /\ Cardinality({i \in 1..Len(dims) : dims[i].sign < 0}) <= 1
      /\ s.ok
      /\ IF \E i \in 1..Len(dims) : dims[i].sign < 0
         THEN /\ s.v.digits # <<>>
              /\ IF big_small(s.v) THEN n % big_val(s.v) = 0 ELSE n = 0
         ELSE big_small(s.v) /\ big_val(s.v) = n
      /\ KnownProd(ShapeNonzero(n, dims), big_of(itemsize)).ok
\* The new shape, in integers of any size, and with the small ones as numbers.
new_shape(n, dims) ==
  [i \in 1..Len(dims) |-> IF dims[i].sign < 0 THEN big_of(Inferred(n, dims)) ELSE dims[i]]
reshape(n, dims) == [i \in 1..Len(dims) |-> big_plain(new_shape(n, dims)[i])]
\* The index of the sidecar file or dataset last written under a destination, 0 if none.
HeavyIndex(kind, dest) ==
  LET hits == {i \in 1..Len(heavy) : heavy[i].kind = kind /\ heavy[i].dest = dest}
  IN  IF hits = {} THEN 0 ELSE CHOOSE i \in hits : \A j \in hits : j <= i

\* The store file exists once a writer session in HDF format has created it.
h5_exists(path) == path = H5Name /\ data_format = "HDF" /\ w_pc # "init"

HandleOf(hf, path) == (CHOOSE e \in hf : e.path = path).handle

ItemFail(e, hf, hnd) == [exc |-> e, data |-> NoData, hdf5_files |-> hf, handles |-> hnd]
ItemData(d, hf, hnd) == [exc |-> "None", data |-> d, hdf5_files |-> hf, handles |-> hnd]

\* Format="XML": numpy.array(text.split(), dtype).reshape(dims)
read_xml_item(ws, dims, dtype, hf, hnd) ==
  IF \E i \in 1..Len(ws) : word_exc(dtype, ws[i]) # "None"
  THEN ItemFail(word_exc(dtype, ws[CHOOSE i \in 1..Len(ws) :
                                      /\ word_exc(dtype, ws[i]) # "None"
                                      /\ \A j \in 1..(i - 1) : word_exc(dtype, ws[j]) = "None"]),
                hf, hnd)
  ELSE IF ~reshape_ok(Len(ws), dims, ItemSize(dtype)) THEN ItemFail("ValueError", hf, hnd)
  ELSE ItemData(Arr(reshape(Len(ws), dims), dtype,
                    [i \in 1..Len(ws) |-> value_of(dtype, ws[i])]), hf, hnd)
\* a.tofile(path): the bytes of the elements of a, one after the other.  The
\* elements are plain numbers.
tofile(a) == Concat([i \in 1..Len(a.flat) |-> ElemBytes(a.dtype, a.flat[i])])
\* The elements of dtype that the bytes bs hold; bytes left over at the end that
\* do not make an element are not read.
frombytes(bs, dtype) ==
  [k \in 1..(Len(bs) \div ItemSize(dtype)) |->
     ElemVal(dtype, SubSeq(bs, (k - 1) * ItemSize(dtype) + 1, k * ItemSize(dtype)))]
\* numpy.fromfile(path, dtype) of the file that a.tofile(path) wrote: the elements
\* of a when dtype is the one they were written in, and otherwise what the
\* bytes of a are when read as dtype.
fromfile(a, dtype) ==
  IF dtype = a.dtype THEN a.flat ELSE frombytes(tofile(a), dtype)

\* Format="Binary": numpy.fromfile(text.strip(), dtype).reshape(dims)
read_binary_item(i, dims, dtype, hf, hnd) ==
  IF i = 0 THEN ItemFail("FileNotFoundError", hf, hnd)
  ELSE IF ~reshape_ok(Len(fromfile(heavy[i].data, dtype)), dims, ItemSize(dtype))
  THEN ItemFail("ValueError", hf, hnd)
  ELSE ItemData(Arr(reshape(Len(fromfile(heavy[i].data, dtype)), dims), dtype,
                    fromfile(heavy[i].data, dtype)), hf, hnd)
\* hdf5_files and the handles after the store file of an HDF item has been looked
\* up in the cache and, when it is not there, opened
OpenedFiles(filename, hf, hnd) ==
  IF \E e \in hf : e.path = filename THEN hf
  ELSE hf \cup {[path |-> filename, handle |-> Len(hnd) + 1]}
OpenedHandles(filename, hf, hnd) ==
  IF \E e \in hf : e.path = filename THEN hnd
  ELSE Append(hnd, [path |-> filename, owner |-> "reader", open |-> TRUE, closes |-> 0])

\* f[key] for one key of the path.  at is 0 for the root group of the store and
\* else the index of the dataset reached; the store holds datasets in its root
\* group only.  The empty name is a ValueError, "." is the group itself, a name
\* the group does not hold is a KeyError, and a dataset indexed by a name is a
\* ValueError.
hdf_step(at, key) ==
  IF at # 0 THEN [exc |-> "ValueError", at |-> at]
  ELSE IF key = <<>> THEN [exc |-> "ValueError", at |-> at]
  ELSE IF key = <<46>> THEN [exc |-> "None", at |-> 0]
  ELSE IF HeavyIndex("h5", key) = 0 THEN [exc |-> "KeyError", at |-> at]
  ELSE [exc |-> "None", at |-> HeavyIndex("h5", key)]
RECURSIVE hdf_walk(_, _)
hdf_walk(at, keys) ==
  IF keys = <<>> THEN [exc |-> "None", at |-> at]
  ELSE IF hdf_step(at, Head(keys)).exc # "None" THEN hdf_step(at, Head(keys))
  ELSE hdf_walk(hdf_step(at, Head(keys)).at, Tail(keys))

\* Format="HDF", after the file has been opened: walk the path to the dataset and
\* read it whole with f[()], which a group does not support (TypeError)
read_hdf_path(h5path, hf, hnd) ==
  IF h5path = <<>> THEN ItemFail("IndexError", hf, hnd)
  ELSE IF Head(h5path) # 47 THEN ItemFail("ReadError", hf, hnd)
  ELSE LET r == hdf_walk(0, split_on(Tail(h5path), 47))
       IN  IF r.exc # "None" THEN ItemFail(r.exc, hf, hnd)
           ELSE IF r.at = 0 THEN ItemFail("TypeError", hf, hnd)
           ELSE ItemData(heavy[r.at].data, hf, hnd)
read_hdf_item(info, hf, hnd) ==
  IF Len(info) # 2 THEN ItemFail("ValueError", hf, hnd)
  ELSE IF ~(\E e \in hf : e.path = info[1]) /\ ~h5_exists(info[1])
  THEN ItemFail("OSError", hf, hnd)
  ELSE read_hdf_path(info[2], OpenedFiles(info[1], hf, hnd),
                     OpenedHandles(info[1], hf, hnd))

\* _read_data_item, lines 181-198: the logical type and the precision
data_type(di) ==
  IF Has(di, "DataType") THEN di.DataType
  ELSE IF Has(di, "NumberType") THEN di.NumberType
  ELSE "Float"
precision(di) == IF Has(di, "Precision") THEN di.Precision ELSE "4"

\* _read_data_item, lines 200-232
read_item_as(di, dims, hf, hnd) ==
  IF di.Format \in {"XML", "Binary"}
  THEN IF ~Has(di, "text") THEN ItemFail("AttributeError", hf, hnd)
       ELSE IF ~xdmf_to_numpy_type_ok(data_type(di), precision(di))
       THEN ItemFail("KeyError", hf, hnd)
       ELSE IF di.Format = "XML"
       THEN read_xml_item(split(di.text), dims,
                          xdmf_to_numpy_type(data_type(di), precision(di)), hf, hnd)
       ELSE read_binary_item(HeavyIndex("bin", strip(di.text)), dims,
                             xdmf_to_numpy_type(data_type(di), precision(di)), hf, hnd)
  ELSE IF di.Format # "HDF" THEN ItemFail("ReadError", hf, hnd)
  ELSE IF ~Has(di, "text") THEN ItemFail("AttributeError", hf, hnd)
  ELSE read_hdf_item(split_on(strip(di.text), 58), hf, hnd)

\* [int(d) for d in ws], for the dimensions of an array
IntList(ws) == [i \in 1..Len(ws) |-> big_int(ws[i])]
\* TimeSeriesReader._read_data_item: the exception or the array, and the
\* session's cache of store files and the handles after the call
_read_data_item(di, hf, hnd) ==
  IF ~Has(di, "Dimensions") THEN ItemFail("KeyError", hf, hnd)
  ELSE IF \E i \in 1..Len(split(di.Dimensions)) : ~int_ok(split(di.Dimensions)[i])
  THEN ItemFail("ValueError", hf, hnd)
  ELSE IF Has(di, "DataType") /\ Has(di, "NumberType") THEN ItemFail("ReadError", hf, hnd)
  ELSE IF ~Has(di, "Format") THEN ItemFail("KeyError", hf, hnd)
  ELSE read_item_as(di, IntList(split(di.Dimensions)), hf, hnd)

(***************************************************************************)
(* The mixed-cell translator, read direction (xdmf/common.py).             *)
(***************************************************************************)
RECURSIVE Dedup(_)
Dedup(s) ==
  IF s = <<>> THEN <<>>
  ELSE LET r == Dedup(SubSeq(s, 1, Len(s) - 1))
       IN  IF \E i \in 1..Len(r) : r[i] = s[Len(s)] THEN r ELSE Append(r, s[Len(s)])

MixedStep(fl) == (IF fl[1] = 2 THEN 2 ELSE 1) + xdmf_idx_to_num_nodes(fl[1])

RECURSIVE mixed_ok(_)
mixed_ok(fl) ==
  \/ fl = <<>>
  \/ /\ xdmf_idx_known(fl[1])
     /\ fl[1] = 2 => (Len(fl) >= 2 /\ fl[2] = 2)
     /\ Len(fl) >= MixedStep(fl)
     /\ mixed_ok(SubSeq(fl, MixedStep(fl) + 1, Len(fl)))

RECURSIVE mixed_records(_)
mixed_records(fl) ==
  IF fl = <<>> THEN <<>>
  ELSE <<[type |-> xdmf_idx_to_meshio_type(fl[1]),
          nodes |-> SubSeq(fl, MixedStep(fl) - xdmf_idx_to_num_nodes(fl[1]) + 1,
                           MixedStep(fl))]>>
         \o mixed_records(SubSeq(fl, MixedStep(fl) + 1, Len(fl)))

RECURSIVE NodesOf(_, _)
NodesOf(recs, ty) ==
  IF recs = <<>> THEN <<>>
  ELSE (IF Head(recs).type = ty THEN <<Head(recs).nodes>> ELSE <<>>)
         \o NodesOf(Tail(recs), ty)

translate_mixed_cells(data) ==
  LET recs == mixed_records(data.flat)
      types == Dedup([i \in 1..Len(recs) |-> recs[i].type])
  IN  [j \in 1..Len(types) |->
         [type |-> types[j],
          data |-> Arr(<<Len(NodesOf(recs, types[j])), Len(NodesOf(recs, types[j])[1])>>,
                       data.dtype, Concat(NodesOf(recs, types[j])))]]

(***************************************************************************)
(* The reader's operations.                                                *)
(***************************************************************************)
\* d[name] = data on an insertion-ordered mapping
DictSet(d, name, data) ==
  IF \E i \in 1..Len(d) : d[i].name = name
  THEN [i \in 1..Len(d) |-> IF d[i].name = name THEN [name |-> name, data |-> data]
                            ELSE d[i]]
  ELSE Append(d, [name |-> name, data |-> data])

CellsSet(cs, ty, data) ==
  IF \E i \in 1..Len(cs) : cs[i].type = ty
  THEN [i \in 1..Len(cs) |-> IF cs[i].type = ty THEN [type |-> ty, data |-> data]
                             ELSE cs[i]]
  ELSE Append(cs, [type |-> ty, data |-> data])

RECURSIVE read_children(_, _)

\* One Attribute child of a frame, r the outcome of reading its data item.
read_attribute(c, r, rest, acc) ==
  IF r.exc # "None"
  THEN [acc EXCEPT !.exc = r.exc, !.hdf5_files = r.hdf5_files, !.handles = r.handles]
  ELSE IF ~Has(c, "Center")
  THEN [acc EXCEPT !.exc = "KeyError", !.hdf5_files = r.hdf5_files,
                   !.handles = r.handles]
  ELSE IF c.Center = "Node"
  THEN read_children(rest, [acc EXCEPT !.point_data = DictSet(@, c.Name, r.data),
                                       !.hdf5_files = r.hdf5_files,
                                       !.handles = r.handles])
  ELSE IF c.Center # "Cell"
  THEN [acc EXCEPT !.exc = "ReadError", !.hdf5_files = r.hdf5_files,
                   !.handles = r.handles]
  ELSE read_children(rest, [acc EXCEPT !.cell_data_raw = DictSet(@, c.Name, r.data),
                                       !.hdf5_files = r.hdf5_files,
                                       !.handles = r.handles])

read_child(c, rest, acc) ==
  IF c.tag = "Time"
  THEN IF ~Has(c, "Value") THEN [acc EXCEPT !.exc = "KeyError"]
       ELSE IF float_ok(c.Value)
       THEN read_children(rest, [acc EXCEPT !.t_set = TRUE, !.t = float_val(c.Value)])
       ELSE [acc EXCEPT !.exc = "ValueError"]
  ELSE IF c.tag = "Attribute"
  THEN IF ~Has(c, "Name") THEN [acc EXCEPT !.exc = "KeyError"]
       ELSE IF Len(c.children) # 1 THEN [acc EXCEPT !.exc = "ReadError"]
       ELSE read_attribute(c, _read_data_item(c.children[1], acc.hdf5_files, acc.handles),
                           rest, acc)
  ELSE read_children(rest, acc)

\* The loop of read_data over the children of frame k.
read_children(ch, acc) ==
  IF ch = <<>> \/ acc.exc # "None" THEN acc ELSE read_child(Head(ch), Tail(ch), acc)

\* A reader that takes self.cells as set whatever the session did.
cells_never_None(cs) == FALSE

\* read_data raises ReadError when read_points_cells has not set self.cells
cells_is_None(cs) == ~cs.set

FrameFail(e, a) ==
  [exc |-> e, returned |-> FALSE, t |-> 0, point_data |-> <<>>, cell_data |-> <<>>,
   hdf5_files |-> a.hdf5_files, handles |-> a.handles]

\* The end of read_data, a the state its loop over the children left.
frame_result(a, cs) ==
  IF a.exc # "None" THEN FrameFail(a.exc, a)
  ELSE IF cells_is_None(cs) THEN FrameFail("ReadError", a)
  ELSE IF ~a.t_set THEN FrameFail("ReadError", a)
  ELSE [exc |-> "None", returned |-> TRUE, t |-> a.t, point_data |-> a.point_data,
        cell_data |-> cell_data_from_raw(cs.v, a.cell_data_raw),
        hdf5_files |-> a.hdf5_files, handles |-> a.handles]

\* TimeSeriesReader.read_data(k) on a frame: the exception or the returned frame,
\* and the session's store handles after the call.
read_data_result(frame, cs, hf, hnd) ==
  frame_result(read_children(frame.children,
                             [exc |-> "None", t_set |-> FALSE, t |-> 0,
                              point_data |-> <<>>, cell_data_raw |-> <<>>,
                              hdf5_files |-> hf, handles |-> hnd]),
               cs)

RECURSIVE read_grid(_, _)

\* read_points_cells, lines 111-117: the cell type of a Topology element; both
\* keys at once are a ReadError, neither a KeyError
cell_type_exc(c) ==
  IF Has(c, "Type") THEN (IF Has(c, "TopologyType") THEN "ReadError" ELSE "None")
  ELSE IF Has(c, "TopologyType") THEN "None" ELSE "KeyError"
cell_type(c) == IF Has(c, "Type") THEN c.Type ELSE c.TopologyType

read_topology(c, r, rest, acc) ==
  IF r.exc # "None"
  THEN [acc EXCEPT !.exc = r.exc, !.hdf5_files = r.hdf5_files, !.handles = r.handles]
  ELSE IF cell_type_exc(c) # "None"
  THEN [acc EXCEPT !.exc = cell_type_exc(c), !.hdf5_files = r.hdf5_files,
                   !.handles = r.handles]
  ELSE IF cell_type(c) = "Mixed"
  THEN IF mixed_ok(r.data.flat)
       THEN read_grid(rest, [acc EXCEPT !.cells = translate_mixed_cells(r.data),
                                        !.hdf5_files = r.hdf5_files,
                                        !.handles = r.handles])
       ELSE [acc EXCEPT !.exc = "ReadError", !.hdf5_files = r.hdf5_files,
                        !.handles = r.handles]
  ELSE IF ~xdmf_to_meshio_type_ok(cell_type(c))
  THEN [acc EXCEPT !.exc = "KeyError", !.hdf5_files = r.hdf5_files,
                   !.handles = r.handles]
  ELSE read_grid(rest, [acc EXCEPT !.cells = CellsSet(@, xdmf_to_meshio_type(cell_type(c)),
                                                      r.data),
                                   !.hdf5_files = r.hdf5_files,
                                   !.handles = r.handles])

read_geometry(r, rest, acc) ==
  IF r.exc # "None"
  THEN [acc EXCEPT !.exc = r.exc, !.hdf5_files = r.hdf5_files, !.handles = r.handles]
  ELSE read_grid(rest, [acc EXCEPT !.points = r.data, !.hdf5_files = r.hdf5_files,
                                   !.handles = r.handles])

read_grid_child(c, rest, acc) ==
  IF c.tag = "Topology"
  THEN IF Len(c.children) # 1 THEN [acc EXCEPT !.exc = "ReadError"]
       ELSE read_topology(c, _read_data_item(c.children[1], acc.hdf5_files, acc.handles),
                          rest, acc)
  ELSE IF c.tag = "Geometry"
  THEN IF \/ Has(c, "GeometryType") /\ c.GeometryType \notin {"XY", "XYZ"}
          \/ Len(c.children) # 1
       THEN [acc EXCEPT !.exc = "ReadError"]
       ELSE read_geometry(_read_data_item(c.children[1], acc.hdf5_files, acc.handles),
                          rest, acc)
  ELSE read_grid(rest, acc)

\* The loop of read_points_cells over the children of the mesh grid.
read_grid(ch, acc) ==
  IF ch = <<>> \/ acc.exc # "None" THEN acc ELSE read_grid_child(Head(ch), Tail(ch), acc)

HasGridType(g, ty) == Has(g, "GridType") /\ g.GridType = ty

\* The last grid of a type among grids, the first one; 0 when there is none.
LastOfType(grids, ty) ==
  LET hits == {i \in 1..Len(grids) : HasGridType(grids[i], ty)}
  IN  IF hits = {} THEN 0 ELSE CHOOSE i \in hits : \A j \in hits : j <= i
LastUniform(grids) == LastOfType(grids, "Uniform")
FirstUniform(grids) ==
  LET hits == {i \in 1..Len(grids) : HasGridType(grids[i], "Uniform")}
  IN  IF hits = {} THEN 0 ELSE CHOOSE i \in hits : \A j \in hits : i <= j

\* __init__, lines 49-60: the search for the collection grid among the children
\* grids of the Domain; the exception it ends with
collection_exc(grids) ==
  IF \E i \in 1..Len(grids) : ~Has(grids[i], "GridType") THEN "KeyError"
  ELSE IF LastOfType(grids, "Collection") = 0 THEN "ReadError"
  ELSE IF grids[LastOfType(grids, "Collection")].tag # "Grid" THEN "ReadError"
  ELSE IF ~Has(grids[LastOfType(grids, "Collection")], "CollectionType") THEN "KeyError"
  ELSE IF grids[LastOfType(grids, "Collection")].CollectionType # "Temporal"
  THEN "ReadError"
  ELSE "None"

\* __init__, lines 67-84: the uniform grid settled on, the last one among the
\* domain's grids, else the first one inside the collection; and the exception
mesh_grid_of(grids, col) ==
  IF LastUniform(grids) # 0 THEN grids[LastUniform(grids)] ELSE col[FirstUniform(col)]
mesh_grid_exc(grids, col) ==
  IF LastUniform(grids) = 0 /\ FirstUniform(col) = 0 THEN "ReadError"
  ELSE IF mesh_grid_of(grids, col).tag # "Grid" THEN "ReadError"
  ELSE "None"

\* __init__, lines 34-84, on the tree root: the exception it ends with
init_exc(root) ==
  IF root.tag # "Xdmf" THEN "ReadError"
  ELSE IF ~Has(root, "Version") THEN "KeyError"
  ELSE IF split_on(root.Version, 46)[1] # <<51>> THEN "ReadError"
  ELSE IF Len(root.children) # 1 THEN "ReadError"
  ELSE IF root.children[1].tag # "Domain" THEN "ReadError"
  ELSE IF collection_exc(root.children[1].children) # "None"
  THEN collection_exc(root.children[1].children)
  ELSE mesh_grid_exc(root.children[1].children,
                     root.children[1].children[
                       LastOfType(root.children[1].children, "Collection")].children)

Opened(grids) ==
  /\ r_collection' = grids[LastOfType(grids, "Collection")].children
  /\ num_steps' = Len(grids[LastOfType(grids, "Collection")].children)
  /\ r_mesh_grid' = mesh_grid_of(grids, grids[LastOfType(grids, "Collection")].children)

\* TimeSeriesReader.__init__ on the XML file of a finished writer session, or on a
\* document found on disk.
ReaderInit ==
  /\ r_pc = "none"
  /\ w_pc \in {"exited", "absent"}
  /\ disk.written
  /\ r_ret' = Ret("__init__", init_exc(parse(disk.root)))
  /\ IF init_exc(parse(disk.root)) # "None"
     THEN /\ r_pc' = "failed"
          /\ UNCHANGED <<r_collection, num_steps, r_mesh_grid>>
     ELSE /\ r_pc' = "open"
          /\ Opened(parse(disk.root).children[1].children)
  /\ r_cells' = [set |-> FALSE, v |-> <<>>]
  /\ hdf5_files' = {}
  /\ UNCHANGED <<w_pc, data_format, data_counter, has_mesh, mesh_name, domain,
                 collection, h5_file, handles, heavy, disk, cells_arg, w_ret, w_log,
                 mesh_ok, r_mesh_read>>

\* The end of read_points_cells, a the state its loop over the grid left.
points_cells_return(a) ==
  /\ hdf5_files' = a.hdf5_files
  /\ handles' = a.handles
  /\ IF a.exc # "None"
     THEN /\ r_ret' = Ret("read_points_cells", a.exc)
          /\ UNCHANGED <<r_cells, r_mesh_read>>
     ELSE /\ r_ret' = [op |-> "read_points_cells", exc |-> "None",
                       points |-> a.points, cells |-> a.cells]
          /\ r_cells' = [set |-> TRUE, v |-> a.cells]
          /\ r_mesh_read' = TRUE

\* TimeSeriesReader.read_points_cells
read_points_cells ==
  /\ r_pc = "open"
  /\ points_cells_return(read_grid(r_mesh_grid.children,
                                   [exc |-> "None", points |-> NoData, cells |-> <<>>,
                                    hdf5_files |-> hdf5_files, handles |-> handles]))
  /\ UNCHANGED <<w_pc, data_format, data_counter, has_mesh, mesh_name, domain,
                 collection, h5_file, heavy, disk, cells_arg, w_ret, w_log, mesh_ok,
                 r_pc, r_collection, num_steps, r_mesh_grid>>

data_return(k, r) ==
  /\ hdf5_files' = r.hdf5_files
  /\ handles' = r.handles
  /\ r_ret' = [op |-> "read_data", k |-> k, exc |-> r.exc, returned |-> r.returned,
               t |-> r.t, point_data |-> r.point_data, cell_data |-> r.cell_data,
               mesh_read |-> r_mesh_read]

\* TimeSeriesReader.read_data(k), k counted from 0
read_data(k) ==
  /\ r_pc = "open"
  /\ data_return(k, read_data_result(r_collection[k + 1], r_cells, hdf5_files, handles))
  /\ UNCHANGED <<w_pc, data_format, data_counter, has_mesh, mesh_name, domain,
                 collection, h5_file, heavy, disk, cells_arg, w_ret, w_log, mesh_ok,
                 r_pc, r_collection, num_steps, r_mesh_grid, r_cells, r_mesh_read>>

\* TimeSeriesReader.__exit__: close every cached store handle
ReaderExit ==
  /\ r_pc = "open"
  /\ r_pc' = "exited"
  /\ handles' = [i \in 1..Len(handles) |->
                   IF \E e \in hdf5_files : e.handle = i
                   THEN [handles[i] EXCEPT !.open = FALSE, !.closes = @ + 1]
                   ELSE handles[i]]
  /\ r_ret' = Ret("__exit__", "None")
  /\ UNCHANGED <<w_pc, data_format, data_counter, has_mesh, mesh_name, domain,
                 collection, h5_file, heavy, disk, cells_arg, w_ret, w_log, mesh_ok,
                 r_collection, num_steps, r_mesh_grid, r_cells, hdf5_files,
                 r_mesh_read>>

(***************************************************************************)
(* Inputs of the time-series sessions.                                     *)
(***************************************************************************)
\* Three points in the plane (the points of the documents found on disk), in
\* space, and (not writable) on a line.
Points2D == Arr(<<3, 2>>, "float64", <<0, 0, 2, 0, 0, 3>>)
Points3D == Arr(<<3, 3>>, "float64", <<0, 0, 0, 2, 0, 1, 0, 3, 0 - 1>>)
Points1D == Arr(<<3, 1>>, "float64", <<0, 2, 3>>)
\* The points of the plane in half precision, a dtype the tables do not hold.
PointsHalf == Arr(<<3, 2>>, "float16", <<0, 0, 2, 0, 0, 3>>)
\* The points a writer session is given.
PointsChoices == {Points3D, Points1D, PointsHalf}

Triangles == [type |-> "triangle", data |-> Arr(<<1, 3>>, "int64", <<0, 1, 2>>)]
Lines == [type |-> "line", data |-> Arr(<<2, 2>>, "int64", <<0, 1, 1, 2>>)]
CellsChoices == {<<Triangles>>, <<Lines, Triangles>>}

\* One value per cell of every type, numbered through the whole mesh.
CellField(cs) ==
  [name |-> "c",
   per_type |->
     [i \in 1..Len(cs) |->
        [type |-> cs[i].type,
         data |-> Arr(<<cs[i].data.shape[1]>>, "float64",
                      [j \in 1..cs[i].data.shape[1] |->
                         2 * i + j - 5])]]]

\* The arguments of a write_data call: the time as an int or a float, point data
\* as a sequence of [name, data], cell data (None and {} are both <<>>).
PointDataU == <<[name |-> "u", data |-> Arr(<<3>>, "float64", <<1, 4, 0 - 3>>)]>>
PointDataUK == <<[name |-> "u", data |-> Arr(<<3, 1>>, "float64", <<0, 21, 2>>)],
                 [name |-> "k", data |-> Arr(<<3>>, "int64", <<7, 0 - 8, 10>>)]>>
\* Single precision and 32-bit integers beside a double precision field:
\* 100000024.0 is a float32 that eight significant digits do not tell from its
\* neighbours.
PointDataV == <<[name |-> "v", data |-> Arr(<<3>>, "float32", <<200000048, 3, 0 - 1>>)],
                [name |-> "j", data |-> Arr(<<3, 1>>, "int32", <<5, 0 - 6, 0>>)],
                [name |-> "u", data |-> Arr(<<3>>, "float64", <<1, 4, 0 - 3>>)]>>
\* An array without elements.
PointDataE == <<[name |-> "e", data |-> Arr(<<0>>, "float64", <<>>)]>>
\* A dtype the tables do not hold, after one they do.
PointDataH == <<[name |-> "u", data |-> Arr(<<3>>, "float64", <<1, 4, 0 - 3>>)],
                [name |-> "h", data |-> Arr(<<3>>, "float16", <<1, 0, 2>>)]>>
Payloads(cs) ==
  { [t |-> [ty |-> "int", v |-> 1], point_data |-> <<>>, cell_data |-> <<>>],
    [t |-> [ty |-> "float", v |-> 25], point_data |-> PointDataUK,
     cell_data |-> <<CellField(cs)>>],
    [t |-> [ty |-> "float", v |-> 4], point_data |-> PointDataV, cell_data |-> <<>>],
    [t |-> [ty |-> "int", v |-> 3], point_data |-> PointDataE, cell_data |-> <<>>],
    [t |-> [ty |-> "float", v |-> 7], point_data |-> PointDataH, cell_data |-> <<>>] }

\* Documents found on disk that no session of the model wrote: frames without a
\* Time element or with an attribute centred on neither nodes nor cells, a mesh
\* grid nested in the collection, and an unknown version.
NoSession == [counter |-> 0, heavy |-> <<>>]
MeshGridXML ==
  [tag |-> "Grid", Name |-> "mesh", GridType |-> "Uniform",
   children |-> points("XML", NoSession, Points2D).elems
                  \o cells("XML", NoSession, <<Triangles>>).elems]
TimeElement(t) == [tag |-> "Time", Value |-> PyStr(t)]
FrameNoTime ==
  [tag |-> "Grid", children |-> attributes("XML", NoSession, "Node", PointDataU).elems]
FrameBadCenter ==
  [tag |-> "Grid",
   children |-> <<TimeElement([ty |-> "float", v |-> 3])>>
                  \o attributes("XML", NoSession, "Grid", PointDataU).elems]
FrameCell ==
  [tag |-> "Grid",
   children |-> <<TimeElement([ty |-> "float", v |-> 1])>>
                  \o attributes("XML", NoSession, "Cell",
                                raw_from_cell_data(<<CellField(<<Triangles>>)>>)).elems]
\* A Topology under the key Type, under both keys; a Geometry without its type;
\* a data item under the key NumberType and the default precision, and with an
\* inferred dimension; a frame whose time is spelled as "%.16e" spells it.
TopologyType3 ==
  [tag |-> "Topology", Type |-> "Triangle",
   children |-> <<[tag |-> "DataItem", NumberType |-> "Int", Dimensions |-> <<45, 49, 32, 51>>,
                   Format |-> "XML", text |-> <<48, 32, 49, 32, 50>>]>>]
TopologyBothKeys ==
  [tag |-> "Topology", Type |-> "Triangle", TopologyType |-> "Triangle",
   children |-> cells("XML", NoSession, <<Triangles>>).elems[1].children]
GeometryPlain ==
  [tag |-> "Geometry", children |-> points("XML", NoSession, Points2D).elems[1].children]
MeshGridXdmf3 ==
  [tag |-> "Grid", Name |-> "mesh", GridType |-> "Uniform",
   children |-> <<GeometryPlain, TopologyType3>>]
MeshGridBothKeys ==
  [tag |-> "Grid", Name |-> "mesh", GridType |-> "Uniform",
   children |-> <<GeometryPlain, TopologyBothKeys>>]
FrameLongTime ==
  [tag |-> "Grid",
   children |-> <<[tag |-> "Time",
                   Value |-> <<53, 46, 48, 48, 48, 48, 48, 48, 48, 48, 48, 48, 48, 48, 48,
                               48, 48, 48, 101, 45, 48, 49>>]>>]

\* Frames that cannot be read: a time that is no number, an attribute whose data
\* item holds a word that is no number, and one of a type the table does not hold.
FrameBadTime ==
  [tag |-> "Grid", children |-> <<[tag |-> "Time", Value |-> <<97, 98, 99>>]>>]
FrameBadWord ==
  [tag |-> "Grid",
   children |-> <<TimeElement([ty |-> "float", v |-> 1]),
                  [tag |-> "Attribute", Name |-> "u", AttributeType |-> "Scalar",
                   Center |-> "Node",
                   children |-> <<[tag |-> "DataItem", DataType |-> "Float",
                                   Dimensions |-> <<50>>, Format |-> "XML",
                                   Precision |-> "8",
                                   text |-> <<49, 46, 53, 32, 120>>]>>]>>]
FrameBadType ==
  [tag |-> "Grid",
   children |-> <<TimeElement([ty |-> "float", v |-> 1]),
                  [tag |-> "Attribute", Name |-> "u", AttributeType |-> "Scalar",
                   Center |-> "Node",
                   children |-> <<[tag |-> "DataItem", DataType |-> "Char",
                                   Dimensions |-> <<49>>, Format |-> "XML",
                                   Precision |-> "1", text |-> <<55>>]>>]>>]

\* Sidecar files found beside the documents, which no session of the model wrote:
\* "found0.bin" holds the int64 array [[0, 5], [0, 7]] and "found1.bin" the int32
\* array [0, 0, 1, 0, 2, 0].
FoundName(n) == <<102, 111, 117, 110, 100>> \o IntStr(n) \o <<46, 98, 105, 110>>
FoundFiles ==
  <<[kind |-> "bin", dest |-> FoundName(0), data |-> Arr(<<2, 2>>, "int64", <<0, 5, 0, 7>>)],
    [kind |-> "bin", dest |-> FoundName(1),
     data |-> Arr(<<6>>, "int32", <<0, 0, 1, 0, 2, 0>>)]>>
\* A mesh grid and a frame whose data items name these files with another
\* precision, or another type, than the files were written with.
BinaryItem(type, prec, dim, n) ==
  [tag |-> "DataItem", DataType |-> type, Dimensions |-> dim, Format |-> "Binary",
   Precision |-> prec, text |-> FoundName(n)]
MeshGridBinary ==
  [tag |-> "Grid", Name |-> "mesh", GridType |-> "Uniform",
   children |-> <<[tag |-> "Geometry", GeometryType |-> "XY",
                   children |-> <<BinaryItem("Int", "4", <<52, 32, 50>>, 0)>>],
                  [tag |-> "Topology", TopologyType |-> "Triangle",
                   NumberOfElements |-> <<49>>,
                   children |-> <<BinaryItem("Int", "8", <<45, 49, 32, 51>>, 1)>>]>>]
FrameBinary ==
  [tag |-> "Grid",
   children |-> <<TimeElement([ty |-> "float", v |-> 1]),
                  [tag |-> "Attribute", Name |-> "u", AttributeType |-> "Scalar",
                   Center |-> "Node",
                   children |-> <<BinaryItem("Float", "8", <<52>>, 0)>>],
                  [tag |-> "Attribute", Name |-> "k", AttributeType |-> "Scalar",
                   Center |-> "Node",
                   children |-> <<BinaryItem("Float", "4", <<45, 49>>, 1)>>]>>]

Document(ver, dom, col) == [written |-> TRUE, root |-> [xdmf_file(dom, col) EXCEPT !.Version = ver]]
Documents ==
  { Document(<<51, 46, 48>>, <<MeshGridXML>>, <<FrameNoTime, FrameBadCenter, FrameCell>>),
    Document(<<51, 46, 48>>, <<>>, <<MeshGridXML, FrameCell>>),
    Document(<<50, 46, 48>>, <<MeshGridXML>>, <<FrameCell>>),
    Document(<<51, 46, 48>>, <<MeshGridXdmf3>>, <<FrameLongTime>>),
    Document(<<51, 46, 48>>, <<MeshGridBothKeys>>, <<FrameCell>>),
    Document(<<51, 46, 48>>, <<EmptyFrame, MeshGridXML>>, <<FrameCell>>),
    Document(<<51, 46, 48>>, <<MeshGridXML>>, <<FrameBadTime, FrameBadWord, FrameBadType>>),
    Document(<<51, 46, 48>>, <<MeshGridBinary>>, <<FrameBinary>>) }

NoDocument == [written |-> FALSE, root |-> [tag |-> "Xdmf", children |-> <<>>]]

(***************************************************************************)
(* The time-series specification: a writer session from its construction   *)
(* to its end and a reader session on what it wrote, or a reader session   *)
(* on a document found on disk.                                            *)
(***************************************************************************)
XFresh ==
  /\ data_counter = 0
  /\ has_mesh = FALSE
  /\ mesh_name = "None"
  /\ domain = <<>>
  /\ collection = <<>>
  /\ h5_file = 0
  /\ handles = <<>>
  /\ w_ret = Ret("__init__", "None")
  /\ w_log = <<>>
  /\ mesh_ok = 0
  /\ r_pc = "none"
  /\ r_collection = <<>>
  /\ num_steps = 0
  /\ r_mesh_grid = EmptyFrame
  /\ r_cells = [set |-> FALSE, v |-> <<>>]
  /\ hdf5_files = {}
  /\ r_mesh_read = FALSE
  /\ r_ret = Ret("none", "None")

XInit ==
  /\ \/ /\ w_pc = "init"
        /\ data_format \in {"XML", "Binary", "HDF"}
        /\ disk = NoDocument
        /\ heavy = <<>>
     \/ /\ w_pc = "absent"
        /\ data_format = "XML"
        /\ disk \in Documents
        /\ heavy = FoundFiles
  /\ cells_arg \in CellsChoices
  /\ XFresh

\* No time series in use.
XIdle ==
  /\ w_pc = "unused"
  /\ data_format = "XML"
  /\ disk = NoDocument
  /\ heavy = <<>>
  /\ cells_arg = <<Triangles>>
  /\ XFresh

(***************************************************************************)
(* The Gmsh codec front end.  State of one call of gmsh.read_buffer, of    *)
(* gmsh.write followed by a read of what it wrote, or of                   *)
(* common._write_data followed by common._read_data on what it wrote.      *)
(***************************************************************************)
VARIABLES
  g_in,        \* the arguments of the call
  g_pc,        \* the place in the code the call has reached
  g_ret,       \* the exception the call raised ("None" while it runs or returned)
  f,           \* the bytes of the input file
  pos,         \* the number of bytes of f consumed
  line,        \* the local variable line
  eof_reads,   \* readline calls that found the input at its end
  decl,        \* _read_header: str_list, the fields of the declaration line
  sent,        \* _read_header: the bytes read as the endianness sentinel
  hdr,         \* _read_header: fmt_version, data_size, is_ascii
  reader,      \* read_buffer: the codec module chosen from _readers
  writer,      \* write: the codec module chosen from _writers
  mesh_out,    \* the mesh read_buffer returned
  fh,          \* the bytes of the output file
  rd,          \* _read_data: string_tags, num_components, num_items, data
  data_dict,   \* _read_data: the entry stored in data_dict
  fh2,         \* the section written from the array read back
  field_data   \* _read_physical_names: the mapping filled from the file

gvars == <<g_in, g_pc, g_ret, f, pos, line, eof_reads, decl, sent, hdr, reader, writer,
           mesh_out, fh, rd, data_dict, fh2, field_data>>

vars == <<xvars, gvars>>

\* Section markers and version strings, as bytes.
S_Comments == <<36, 67, 111, 109, 109, 101, 110, 116, 115>>          \* "$Comments"
S_EndComments == <<36, 69, 110, 100, 67, 111, 109, 109, 101, 110, 116, 115>>    \* "$EndComments"
S_MeshFormat == <<36, 77, 101, 115, 104, 70, 111, 114, 109, 97, 116>>      \* "$MeshFormat"
S_EndMeshFormat == <<36, 69, 110, 100, 77, 101, 115, 104, 70, 111, 114, 109, 97, 116>>  \* "$EndMeshFormat"
S_NodeData == <<78, 111, 100, 101, 68, 97, 116, 97>>           \* "NodeData"
S_ElementData == <<69, 108, 101, 109, 101, 110, 116, 68, 97, 116, 97>>     \* "ElementData"
V_2 == <<50>>                \* "2"
V_4 == <<52>>                \* "4"
V_22 == <<50, 46, 50>>       \* "2.2"
V_40 == <<52, 46, 48>>       \* "4.0"
V_41 == <<52, 46, 49>>       \* "4.1"
V_42 == <<52, 46, 50>>       \* "4.2"
V_99 == <<57, 46, 57>>       \* "9.9"
NL == <<10>>                 \* "\n"

(***************************************************************************)
(* File primitives.                                                        *)
(***************************************************************************)
\* The offset just past the line that starts at offset p.
LineEnd(bs, p) ==
  IF \E i \in (p + 1)..Len(bs) : bs[i] = 10
  THEN CHOOSE i \in (p + 1)..Len(bs) : bs[i] = 10 /\ \A j \in (p + 1)..(i - 1) : bs[j] # 10
  ELSE Len(bs)

\* f.readline() at offset p: up to and including the newline; empty at the end
readline(bs, p) == SubSeq(bs, p + 1, LineEnd(bs, p))

\* f.read(n) at offset p
read_bytes(bs, p, n) == SubSeq(bs, p + 1, IF p + n < Len(bs) THEN p + n ELSE Len(bs))

\* struct.unpack("i", b)[0] read with the most significant byte first.
unpack_i_big_endian(b) ==
  b[4] + 256 * b[3] + 65536 * b[2] + 16777216 * (IF b[1] >= 128 THEN b[1] - 256 ELSE b[1])

\* struct.unpack("i", b)[0] on a little-endian host: a signed 32-bit integer
unpack_i(b) ==
  b[1] + 256 * b[2] + 65536 * b[3] + 16777216 * (IF b[4] >= 128 THEN b[4] - 256 ELSE b[4])

\* struct.pack("i", n) / numpy int32 tofile on a little-endian host
pack_i(n) ==
  <<n % 256, (n \div 256) % 256, (n \div 65536) % 256, (n \div 16777216) % 256>>

(***************************************************************************)
(* Version dispatch (gmsh/main.py).                                        *)
(***************************************************************************)
\* The table _writers, which differs from _readers at "4".
_writers(v) ==
  CASE v = V_2 -> "_gmsh22"
    [] v = V_4 -> "_gmsh41"
    [] v = V_40 -> "_gmsh40"
    [] v = V_41 -> "_gmsh41"
    [] OTHER -> "KeyError"

\* A reader table that equals the writer table.
readers_like_writers(v) == _writers(v)

\* The table _readers: the codec for a version string, "KeyError" for none.
_readers(v) ==
  CASE v = V_2 -> "_gmsh22"
    [] v = V_4 -> "_gmsh40"
    [] v = V_40 -> "_gmsh40"
    [] v = V_41 -> "_gmsh41"
    [] OTHER -> "KeyError"

\* fmt_version.split(".")[0]
major(v) == split_on(v, 46)[1]

\* sorted(_readers.keys()), sorted(_writers.keys())
known_versions == <<V_2, V_4, V_40, V_41>>

\* write, lines 89-99: try _writers[fmt_version], then _writers[fmt_version.split(".")[0]]
select_writer(v) == IF _writers(v) # "KeyError" THEN _writers(v) ELSE _writers(major(v))

\* read_buffer, lines 34-39: try _readers[fmt_version], then
\* _readers[fmt_version.split(".")[0]]
select_reader(v) == IF _readers(v) # "KeyError" THEN _readers(v) ELSE _readers(major(v))

\* The writers registered under a file format name: version and encoding.
registered(name) ==
  CASE name = "gmsh" -> [fmt_version |-> V_4, binary |-> TRUE]
    [] name = "gmsh2-ascii" -> [fmt_version |-> V_2, binary |-> FALSE]
    [] name = "gmsh2-binary" -> [fmt_version |-> V_2, binary |-> TRUE]
    [] name = "gmsh4-ascii" -> [fmt_version |-> V_4, binary |-> FALSE]
    [] OTHER -> [fmt_version |-> V_4, binary |-> TRUE]

(***************************************************************************)
(* The version codecs _gmsh22, _gmsh40, _gmsh41, as far as the front end   *)
(* depends on them: the MeshFormat section each writes.  What a codec      *)
(* writes after that section and what it reads from it is not part of the  *)
(* sources; a codec's read_buffer returns some mesh or raises.             *)
(***************************************************************************)
codec_version(w) ==
  CASE w = "_gmsh22" -> V_22 [] w = "_gmsh40" -> V_40 [] OTHER -> V_41

codec_write_header(w, binary) ==
  S_MeshFormat \o NL
    \o codec_version(w) \o <<32>> \o (IF binary THEN <<49>> ELSE <<48>>) \o <<32, 56>> \o NL
    \o (IF binary THEN pack_i(1) \o NL ELSE <<>>)
    \o S_EndMeshFormat \o NL

NoMesh == [points |-> NoData, cells |-> <<>>]

\* Meshes a codec may return.
GmshMeshes ==
  { [points |-> Points3D, cells |-> <<Triangles>>],
    [points |-> Points2D, cells |-> <<Lines, Triangles>>] }

(***************************************************************************)
(* gmsh.read_buffer and gmsh._read_header, one readline per step.          *)
(***************************************************************************)
Running == g_ret.exc = "None"
Goto(pc) == g_pc' = pc /\ g_ret' = g_ret
Raise(e) == g_pc' = g_pc /\ g_ret' = [g_ret EXCEPT !.exc = e]

\* The file after one readline that returned raw.
Advance(raw) ==
  /\ pos' = pos + Len(raw)
  /\ eof_reads' = eof_reads + (IF raw = <<>> THEN 1 ELSE 0)

\* `while line == "$Comments"` and `if line != "$MeshFormat"` on the line l
TopOf(l) ==
  IF l = S_Comments THEN Goto("comments")
  ELSE IF l # S_MeshFormat THEN Raise("ReadError")
  ELSE Goto("_read_header")

FirstLine(raw) ==
  /\ Advance(raw)
  /\ IF ~decode_ok(raw) THEN Raise("UnicodeDecodeError") /\ line' = line
     ELSE line' = strip(decode(raw)) /\ TopOf(strip(decode(raw)))

\* read_buffer, line 22
ReadFirstLine ==
  /\ g_pc = "read_buffer"
  /\ Running
  /\ FirstLine(readline(f, pos))
  /\ UNCHANGED <<g_in, f, decl, sent, hdr, reader, writer, mesh_out, fh, rd,
                 data_dict, fh2>>

CommentLine(raw) ==
  /\ Advance(raw)
  /\ IF ~decode_ok(raw) THEN Raise("UnicodeDecodeError") /\ line' = line
     ELSE /\ line' = strip(decode(raw))
          /\ IF line # S_EndComments THEN Goto("comments") ELSE TopOf(strip(decode(raw)))

\* read_buffer, lines 25-28: one readline of the loop that skips a $Comments
\* section, or the readline that follows the loop
SkipComments ==
  /\ g_pc = "comments"
  /\ Running
  /\ eof_reads < MaxEofReads
  /\ CommentLine(readline(f, pos))
  /\ UNCHANGED <<g_in, f, decl, sent, hdr, reader, writer, mesh_out, fh, rd,
                 data_dict, fh2>>

\* _read_header, lines 67-72, on the fields of the declaration line
Declaration(str_list) ==
  /\ decl' = str_list
  /\ IF Len(str_list) < 2 THEN Raise("IndexError") /\ hdr' = hdr
     ELSE IF str_list[2] \notin {<<48>>, <<49>>} THEN Raise("ReadError") /\ hdr' = hdr
     ELSE IF Len(str_list) < 3 THEN Raise("IndexError") /\ hdr' = hdr
     ELSE IF ~int_ok(str_list[3]) THEN Raise("ValueError") /\ hdr' = hdr
     ELSE /\ hdr' = [fmt_version |-> str_list[1], data_size |-> big_plain(big_int(str_list[3])),
                     is_ascii |-> (str_list[2] = <<48>>)]
          /\ Goto(IF str_list[2] = <<48>> THEN "end_of_header" ELSE "sentinel")

DeclarationLine(raw) ==
  /\ Advance(raw)
  /\ IF ~decode_ok(raw) THEN Raise("UnicodeDecodeError") /\ UNCHANGED <<decl, hdr>>
     ELSE Declaration(split(decode(raw)))

\* _read_header, lines 63-72
ReadDeclaration ==
  /\ g_pc = "_read_header"
  /\ Running
  /\ DeclarationLine(readline(f, pos))
  /\ UNCHANGED <<g_in, f, line, sent, reader, writer, mesh_out, fh, rd,
                 data_dict, fh2>>

\* The sentinel is accepted when it decodes to 1.
sentinel_ok(one) == unpack_i(one) = 1

Sentinel(one) ==
  /\ sent' = one
  /\ pos' = pos + Len(one)
  /\ IF Len(one) < 4 THEN Raise("struct.error")
     ELSE IF ~sentinel_ok(one) THEN Raise("ReadError")
     ELSE Goto("end_of_header")

\* _read_header, lines 73-78: binary mode only
ReadSentinel ==
  /\ g_pc = "sentinel"
  /\ Running
  /\ Sentinel(read_bytes(f, pos, 4))
  /\ UNCHANGED <<g_in, f, line, eof_reads, decl, hdr, reader, writer, mesh_out,
                 fh, rd, data_dict, fh2>>

HeaderLine(raw) ==
  /\ Advance(raw)
  /\ IF ~decode_ok(raw) THEN Raise("UnicodeDecodeError") /\ line' = line
     ELSE line' = decode(raw) /\ Goto("fast_forward")

\* _read_header, line 80
ReadAfterDeclaration ==
  /\ g_pc = "end_of_header"
  /\ Running
  /\ HeaderLine(readline(f, pos))
  /\ UNCHANGED <<g_in, f, decl, sent, hdr, reader, writer, mesh_out, fh, rd,
                 data_dict, fh2>>

\* _read_header, lines 81-83: one readline of the loop, or the return
FastForward ==
  /\ g_pc = "fast_forward"
  /\ Running
  /\ IF strip(line) # S_EndMeshFormat
     THEN /\ eof_reads < MaxEofReads
          /\ HeaderLine(readline(f, pos))
     ELSE /\ Goto("dispatch")
          /\ UNCHANGED <<pos, eof_reads, line>>
  /\ UNCHANGED <<g_in, f, decl, sent, hdr, reader, writer, mesh_out, fh, rd,
                 data_dict, fh2>>

\* read_buffer, lines 34-44
Dispatch ==
  /\ g_pc = "dispatch"
  /\ Running
  /\ IF select_reader(hdr.fmt_version) = "KeyError"
     THEN /\ g_ret' = [exc |-> "ValueError", requested |-> hdr.fmt_version,
                       known |-> known_versions]
          /\ UNCHANGED <<g_pc, reader>>
     ELSE /\ reader' = select_reader(hdr.fmt_version)
          /\ Goto("reader.read_buffer")
  /\ UNCHANGED <<g_in, f, pos, line, eof_reads, decl, sent, hdr, writer, mesh_out,
                 fh, rd, data_dict, fh2>>

\* read_buffer, line 45: reader.read_buffer(f, is_ascii, data_size) returns a
\* mesh or raises
CodecRead ==
  /\ g_pc = "reader.read_buffer"
  /\ Running
  /\ \/ \E m \in GmshMeshes : mesh_out' = m /\ Goto("returned")
     \/ mesh_out' = mesh_out /\ Raise("ReadError")
  /\ UNCHANGED <<g_in, f, pos, line, eof_reads, decl, sent, hdr, reader, writer,
                 fh, rd, data_dict, fh2>>
\* gmsh.write(filename, mesh, fmt_version, binary), then the file is opened for reading
Write ==
  /\ g_pc = "write"
  /\ Running
  /\ IF select_writer(g_in.fmt_version) = "KeyError"
     THEN /\ g_ret' = [exc |-> "ValueError", requested |-> g_in.fmt_version,
                       known |-> known_versions]
          /\ UNCHANGED <<g_pc, writer, f>>
     ELSE /\ writer' = select_writer(g_in.fmt_version)
          /\ f' = codec_write_header(select_writer(g_in.fmt_version), g_in.binary)
          /\ Goto("read_buffer")
  /\ UNCHANGED <<g_in, pos, line, eof_reads, decl, sent, hdr, reader, mesh_out, fh, rd,
                 data_dict, fh2>>

(***************************************************************************)
(* Data sections (gmsh/common.py).                                         *)
(***************************************************************************)
\* The array as float64: the assignment tmp["data"] = data
AsHalves(a) == IF a.dtype = "int64" THEN [i \in 1..Len(a.flat) |-> 2 * a.flat[i]] ELSE a.flat

\* "{!r}".format(x) of one element of the array
ElemRepr(a, x) == IF a.dtype = "int64" THEN IntStr(x) ELSE FloatRepr(x)

\* _write_data, lines 159-173: what is written before the component count is looked at
data_preamble(tag, name) ==
  <<36>> \o encode(tag) \o NL \o IntStr(1) \o NL \o <<34>> \o encode(name) \o <<34>> \o NL
    \o IntStr(1) \o NL \o FloatRepr(0) \o NL \o IntStr(3) \o NL \o IntStr(0) \o NL

\* _write_data, line 175
num_components_of(data) == IF Len(data.shape) > 1 THEN data.shape[2] ELSE 1

\* A _write_data that keeps a trailing dimension of one.
keep_shape(data) == data

\* _write_data, lines 185-186, _read_data, lines 63-64: data[:, 0] when shape[1] == 1
collapse(data) ==
  IF Len(data.shape) > 1 /\ data.shape[2] = 1
  THEN Arr(<<data.shape[1]>>, data.dtype, data.flat)
  ELSE data

\* _write_data, lines 192-201: tmp.tofile(fh), then a newline
binary_records(data) ==
  Concat([k \in 1..NumRows(data) |->
            pack_i(k) \o Concat([j \in 1..RowLen(data) |-> F64Bytes(AsHalves(data)[(k - 1) * RowLen(data) + j])])])
    \o NL

\* _write_data, lines 203-210
ascii_lines(data) ==
  Concat([k \in 1..NumRows(data) |->
            IntStr(k)
              \o Concat([j \in 1..RowLen(data) |-> <<32>> \o ElemRepr(data, Row(data, k)[j])])
              \o NL])

\* _write_data(fh, tag, name, data, binary): the exception and the bytes written to fh
_write_data(tag, name, data, binary) ==
  IF num_components_of(data) \notin {1, 3, 9}
  THEN [exc |-> "WriteError", out |-> data_preamble(tag, name)]
  ELSE [exc |-> "None",
        out |-> data_preamble(tag, name)
                  \o IntStr(num_components_of(data)) \o NL
                  \o IntStr(collapse(data).shape[1]) \o NL
                  \o (IF binary THEN binary_records(collapse(data))
                      ELSE ascii_lines(collapse(data)))
                  \o <<36, 69, 110, 100>> \o encode(tag) \o NL]

\* The other data section tag.
OtherTag(tag) == IF tag = S_NodeData THEN S_ElementData ELSE S_NodeData

\* The file a reader is given: the section as written, the section without its
\* last line, or the section closed by the marker of another section.
Damaged(out, tag, damage) ==
  CASE damage = "none" -> out
    [] damage = "cut" -> SubSeq(out, 1, Len(out) - (Len(tag) + 5))
    [] OTHER -> SubSeq(out, 1, Len(out) - (Len(tag) + 5))
                  \o <<36, 69, 110, 100>> \o OtherTag(tag) \o NL

WroteData(r) ==
  /\ fh' = fh \o r.out
  /\ IF r.exc # "None"
     THEN Raise(r.exc) /\ UNCHANGED <<f, pos, hdr>>
     ELSE /\ f' = Damaged(r.out, g_in.tag, g_in.damage)
          /\ pos' = Len(g_in.tag) + 2
          /\ hdr' = [fmt_version |-> V_41, data_size |-> 8, is_ascii |-> ~g_in.binary]
          /\ Goto("_read_data")

\* A codec has read the header of the file and the line "$<tag>" when it calls
\* _read_data(f, tag, data_dict, data_size, is_ascii)
OpenData ==
  /\ g_pc = "open"
  /\ Running
  /\ pos' = Len(g_in.tag) + 2
  /\ hdr' = [fmt_version |-> V_41, data_size |-> 8, is_ascii |-> ~g_in.binary]
  /\ Goto("_read_data")
  /\ UNCHANGED <<g_in, f, line, eof_reads, decl, sent, reader, writer, mesh_out, fh, rd,
                 data_dict, fh2>>

\* _write_data on an open output; the codec that reads the file back has consumed
\* the line "$<tag>" when it calls _read_data
WriteData ==
  /\ g_pc = "_write_data"
  /\ Running
  /\ WroteData(_write_data(g_in.tag, g_in.name, g_in.data, g_in.binary))
  /\ UNCHANGED <<g_in, line, eof_reads, decl, sent, reader, writer, mesh_out, rd,
                 data_dict, fh2>>

\* The offsets just past the newlines of bs after offset p.
Newlines(bs, p) == {i \in (p + 1)..Len(bs) : bs[i] = 10}

\* The number of calls of f.readline() from offset p that return a line.
NumLines(bs, p) ==
  Cardinality(Newlines(bs, p)) + (IF p < Len(bs) /\ bs[Len(bs)] # 10 THEN 1 ELSE 0)

\* the offset after n calls of f.readline() from offset p
SkipLines(bs, p, n) ==
  IF n <= 0 THEN p
  ELSE IF n > Cardinality(Newlines(bs, p)) THEN Len(bs)
  ELSE CHOOSE i \in Newlines(bs, p) : Cardinality({j \in Newlines(bs, p) : j <= i}) = n

\* what the n-th call of f.readline() from offset p returns
LineAt(bs, p, n) == readline(bs, SkipLines(bs, p, n - 1))
\* str.replace('"', "")
RECURSIVE unquote(_)
unquote(s) ==
  IF s = <<>> THEN <<>>
  ELSE (IF Head(s) = 34 THEN <<>> ELSE <<Head(s)>>) \o unquote(Tail(s))

\* shlex.split(s): the scanner of shlex in POSIX mode, white space " \t\r\n", no
\* comments.  state is "ws" between words, "word" in a word, "dq" and "sq" in
\* double and single quotes, "esc" and "esc_dq" after a backslash in a word and
\* in double quotes; token is the word collected, out the words closed.
RECURSIVE shlex_scan(_, _, _, _)
shlex_scan(s, token, state, out) ==
  IF s = <<>>
  THEN IF state = "ws" THEN [exc |-> "None", words |-> out]
       ELSE IF state = "word" THEN [exc |-> "None", words |-> Append(out, token)]
       ELSE [exc |-> "ValueError", words |-> out]
  ELSE CASE state = "ws" ->
              IF Head(s) \in {9, 10, 13, 32} THEN shlex_scan(Tail(s), <<>>, "ws", out)
              ELSE IF Head(s) = 92 THEN shlex_scan(Tail(s), <<>>, "esc", out)
              ELSE IF Head(s) = 34 THEN shlex_scan(Tail(s), <<>>, "dq", out)
              ELSE IF Head(s) = 39 THEN shlex_scan(Tail(s), <<>>, "sq", out)
              ELSE shlex_scan(Tail(s), <<Head(s)>>, "word", out)
         [] state = "word" ->
              IF Head(s) \in {9, 10, 13, 32}
              THEN shlex_scan(Tail(s), <<>>, "ws", Append(out, token))
              ELSE IF Head(s) = 92 THEN shlex_scan(Tail(s), token, "esc", out)
              ELSE IF Head(s) = 34 THEN shlex_scan(Tail(s), token, "dq", out)
              ELSE IF Head(s) = 39 THEN shlex_scan(Tail(s), token, "sq", out)
              ELSE shlex_scan(Tail(s), Append(token, Head(s)), "word", out)
         [] state = "dq" ->
              IF Head(s) = 34 THEN shlex_scan(Tail(s), token, "word", out)
              ELSE IF Head(s) = 92 THEN shlex_scan(Tail(s), token, "esc_dq", out)
              ELSE shlex_scan(Tail(s), Append(token, Head(s)), "dq", out)
         [] state = "sq" ->
              IF Head(s) = 39 THEN shlex_scan(Tail(s), token, "word", out)
              ELSE shlex_scan(Tail(s), Append(token, Head(s)), "sq", out)
         [] state = "esc" ->
              shlex_scan(Tail(s), Append(token, Head(s)), "word", out)
         [] OTHER ->
              IF Head(s) \in {34, 92}
              THEN shlex_scan(Tail(s), Append(token, Head(s)), "dq", out)
              ELSE shlex_scan(Tail(s), token \o <<92, Head(s)>>, "dq", out)

shlex_split(s) == shlex_scan(s, <<>>, "ws", <<>>)

\* What one pass of a loop over the lines of a block does with the line raw:
\* "raw" f.readline(); "str" f.readline().decode("utf-8");
\* "int" int(f.readline().decode("utf-8")); "name" lines 17-19 of
\* _read_physical_names, where numpy.array(line[1::-1], dtype=int) converts
\* line[1], then line[0], to integers of 64 bits.  The exception raised, "None"
\* when the pass completes.
line_exc(kind, raw) ==
  IF kind = "raw" THEN "None"
  ELSE IF ~decode_ok(raw) THEN "UnicodeDecodeError"
  ELSE IF kind = "str" THEN "None"
  ELSE IF kind = "int" THEN (IF int_ok(decode(raw)) THEN "None" ELSE "ValueError")
  ELSE LET ws == shlex_split(decode(raw))
       IN  IF ws.exc # "None" THEN ws.exc
           ELSE IF Len(ws.words) < 3 THEN "IndexError"
           ELSE IF ~int_ok(ws.words[2]) THEN "ValueError"
           ELSE IF ~fits_int64(big_int(ws.words[2])) THEN "OverflowError"
           ELSE IF ~int_ok(ws.words[1]) THEN "ValueError"
           ELSE IF ~fits_int64(big_int(ws.words[1])) THEN "OverflowError"
           ELSE "None"

\* int(f.readline().decode("utf-8")), then a loop of that many passes, each on
\* the next line of the file: the exception that ended it, the lines of the passes
\* completed that were read before the end of the input, the offset reached, and
\* the number of readline calls at the end of the input.  n is the count, lines
\* the lines left after it, and the first pass at the end of the input stands
\* for all of them.
Block(bs, p, kind) ==
  LET first == readline(bs, p)
      q == LineEnd(bs, p)
      n == big_int(decode(first))
      lines == NumLines(bs, q)
      m == IF n.sign < 0 \/ n.digits = <<>> THEN 0
           ELSE IF big_small(n) /\ big_val(n) <= lines THEN big_val(n)
           ELSE lines + 1
      bad == {k \in 1..m : line_exc(kind, LineAt(bs, q, k)) # "None"}
      stop == CHOOSE k \in bad : \A j \in bad : k <= j
  IN  IF ~decode_ok(first)
      THEN [exc |-> "UnicodeDecodeError", lines |-> <<>>, pos |-> q, eofs |-> big_of(0)]
      ELSE IF ~int_ok(decode(first))
      THEN [exc |-> "ValueError", lines |-> <<>>, pos |-> q,
            eofs |-> big_of(IF first = <<>> THEN 1 ELSE 0)]
      ELSE IF bad # {}
      THEN [exc |-> line_exc(kind, LineAt(bs, q, stop)),
            lines |-> [k \in 1..(stop - 1) |-> LineAt(bs, q, k)],
            pos |-> SkipLines(bs, q, stop),
            eofs |-> big_of(IF stop > lines THEN 1 ELSE 0)]
      ELSE [exc |-> "None",
            lines |-> [k \in 1..(IF m > lines THEN lines ELSE m) |-> LineAt(bs, q, k)],
            pos |-> SkipLines(bs, q, m),
            eofs |-> IF m > lines
                     THEN [sign |-> 1, digits |-> nat_sub(n.digits, NatStr(lines))]
                     ELSE big_of(0)]

\* The loop is followed when the readline calls at the end of the input are
\* fewer than a thousand million.
StringTags(b) ==
  /\ big_small(b.eofs)
  /\ pos' = b.pos
  /\ eof_reads' = eof_reads + big_val(b.eofs)
  /\ IF b.exc # "None" THEN Raise(b.exc) /\ rd' = rd
     ELSE /\ rd' = [rd EXCEPT !.string_tags =
                      [i \in 1..Len(b.lines) |-> unquote(strip(decode(b.lines[i])))]
                        \o [i \in 1..big_val(b.eofs) |-> <<>>]]
          /\ Goto("real_tags")

\* _read_data, lines 28-32
ReadStringTags ==
  /\ g_pc = "_read_data"
  /\ Running
  /\ StringTags(Block(f, pos, "str"))
  /\ UNCHANGED <<g_in, f, line, decl, sent, hdr, reader, writer, mesh_out, fh,
                 data_dict, fh2>>

RealTags(b) ==
  /\ big_small(b.eofs)
  /\ pos' = b.pos
  /\ eof_reads' = eof_reads + big_val(b.eofs)
  /\ IF b.exc # "None" THEN Raise(b.exc) ELSE Goto("integer_tags")

\* _read_data, lines 35-37
ReadRealTags ==
  /\ g_pc = "real_tags"
  /\ Running
  /\ RealTags(Block(f, pos, "raw"))
  /\ UNCHANGED <<g_in, f, line, decl, sent, hdr, reader, writer, mesh_out, fh, rd,
                 data_dict, fh2>>

\* num_components and num_items are the integers int() gave, of any size.
IntegerTags(b) ==
  /\ pos' = b.pos
  /\ eof_reads' = eof_reads + big_val(b.eofs)
  /\ IF b.exc # "None" THEN Raise(b.exc) /\ rd' = rd
     ELSE IF Len(b.lines) < 3 THEN Raise("IndexError") /\ rd' = rd
     ELSE /\ rd' = [rd EXCEPT !.num_components = big_int(decode(b.lines[2])),
                              !.num_items = big_int(decode(b.lines[3]))]
          /\ Goto("items")

\* _read_data, lines 38-41
ReadIntegerTags ==
  /\ g_pc = "integer_tags"
  /\ Running
  /\ IntegerTags(Block(f, pos, "int"))
  /\ UNCHANGED <<g_in, f, line, decl, sent, hdr, reader, writer, mesh_out, fh,
                 data_dict, fh2>>
\* Byte i of bs, and -1 past the end of the input: what getc returns.
ByteAt(bs, i) == IF i >= 1 /\ i <= Len(bs) THEN bs[i] ELSE 0 - 1

IsDigitByte(c) == c \in 48..57
IsNameByte(c) == c \in 48..57 \/ c \in 65..90 \/ c \in 97..122 \/ c = 95

\* The index of the first byte at or after index i that P rejects.
RunEnd(bs, i, P(_)) ==
  CHOOSE j \in i..(Len(bs) + 1) :
    ~P(ByteAt(bs, j)) /\ \A k \in i..(j - 1) : P(ByteAt(bs, k))

\* The number of leading letters of the lower-case word w that the bytes from
\* index i spell, in either case.
MatchWord(bs, i, w) ==
  CHOOSE k \in 0..Len(w) :
    /\ \A j \in 1..k : ByteAt(bs, i + j - 1) = w[j] \/ ByteAt(bs, i + j - 1) + 32 = w[j]
    /\ k = Len(w) \/ ~(ByteAt(bs, i + k) = w[k + 1] \/ ByteAt(bs, i + k) + 32 = w[k + 1])

\* The index past the number-like string that starts at index s: an optional
\* sign, then "nan" with an optional "(...)", or a prefix of "infinity", or
\* digits, a point with digits after it, and an exponent with its sign and digits;
\* the string ends where the next byte does not go on with it.
NumberEnd(bs, s) ==
  LET a == IF ByteAt(bs, s) \in {43, 45} THEN s + 1 ELSE s
      an == MatchWord(bs, a + 1, <<97, 110>>)
      name == RunEnd(bs, a + 4, IsNameByte)
      d1 == RunEnd(bs, a, IsDigitByte)
      d2 == IF ByteAt(bs, d1) = 46 THEN RunEnd(bs, d1 + 1, IsDigitByte) ELSE d1
      x == IF ByteAt(bs, d2 + 1) \in {43, 45} THEN d2 + 2 ELSE d2 + 1
  IN  IF ByteAt(bs, a) \in {78, 110}
      THEN IF an < 2 \/ ByteAt(bs, a + 3) # 40 THEN a + 1 + an
           ELSE IF ByteAt(bs, name) = 41 THEN name + 1
           ELSE name
      ELSE IF ByteAt(bs, a) \in {73, 105}
      THEN a + 1 + MatchWord(bs, a + 1, <<110, 102, 105, 110, 105, 116, 121>>)
      ELSE IF ByteAt(bs, d1) = 46 /\ d2 = d1 + 1 THEN d2
      ELSE IF ByteAt(bs, d2) \in {69, 101} THEN RunEnd(bs, x, IsDigitByte)
      ELSE d2

\* The longest prefix of the number-like string buf that spells a number: the
\* mantissa, which has a digit, and the exponent when it has one.
strtod_prefix(buf) ==
  LET u == Unsigned(buf)
      sign == SubSeq(buf, 1, Len(buf) - Len(u))
  IN  IF Len(u) >= 3 /\ Lower(SubSeq(u, 1, 3)) = <<110, 97, 110>> THEN <<110, 97, 110>>
      ELSE IF Len(u) >= 3 /\ Lower(SubSeq(u, 1, 3)) = <<105, 110, 102>>
      THEN sign \o <<105, 110, 102>>
      ELSE IF ~\E i \in 1..Len(Mantissa(u)) : IsDigitByte(Mantissa(u)[i]) THEN <<>>
      ELSE IF HasExponent(u) /\ Unsigned(Exponent(u)) # <<>> THEN buf
      ELSE sign \o Mantissa(u)

\* The parser of numpy.fromfile on a number-like string: no number when the
\* string has no prefix that spells one.
strtod_ok(buf) == strtod_prefix(buf) # <<>>
strtod_val(buf) == FloatOf(strtod_prefix(buf))

\* One number read at offset p by numpy.fromfile in text mode: white space is
\* skipped, the number-like string that follows is taken, up to 120 bytes of it,
\* and parsed.  ok when a number was read, pos the offset reached.
Scan(bs, p) ==
  LET s == RunEnd(bs, p + 1, IsCSpace)
      e == IF NumberEnd(bs, s) > s + 120 THEN s + 120 ELSE NumberEnd(bs, s)
  IN  IF p >= Len(bs) THEN [ok |-> FALSE, pos |-> p, val |-> 0]
      ELSE IF ~strtod_ok(SubSeq(bs, s, e - 1)) THEN [ok |-> FALSE, pos |-> e - 1, val |-> 0]
      ELSE [ok |-> TRUE, pos |-> e - 1, val |-> strtod_val(SubSeq(bs, s, e - 1))]

\* numpy.fromfile(f, count=count, sep=" ") from offset p: the numbers parsed and
\* the offset reached; a negative count reads all there is.  After a number the
\* white space that follows is consumed; reading stops at the count, at the end
\* of the input, at a number with no white space after it and at what is no number.
RECURSIVE fromfile_text(_, _, _, _)
fromfile_text(bs, p, count, acc) ==
  IF count = 0 THEN [vals |-> acc, pos |-> p]
  ELSE IF ~Scan(bs, p).ok THEN [vals |-> acc, pos |-> Scan(bs, p).pos]
  ELSE LET r == Scan(bs, p)
           q == RunEnd(bs, r.pos + 1, IsCSpace) - 1
       IN  IF q >= Len(bs) THEN [vals |-> Append(acc, r.val), pos |-> Len(bs)]
           ELSE IF q = r.pos THEN [vals |-> Append(acc, r.val), pos |-> r.pos]
           ELSE fromfile_text(bs, q, count - 1, Append(acc, r.val))

\* The count numpy.fromfile reads up to, for the count argument n: an input has
\* fewer numbers than bytes.
ReadLimit(bs, n) ==
  IF n.sign < 0 THEN 0 - 1 ELSE IF big_small(n) THEN big_val(n) ELSE Len(bs)

\* What numpy.fromfile(f, count=n, ...) raises before it reads, for items of
\* size bytes: the count is no C integer of 64 bits, the array of n items is
\* larger than one can be, or the memory for it is not there, which may happen
\* for more than SureAlloc bytes.
fromfile_exc(n, size) ==
  IF ~fits_int64(n) THEN {"OverflowError"}
  ELSE IF n.sign < 0 THEN {"None"}
  ELSE IF ~fits_int64(big_mul(n, big_of(size))) THEN {"ValueError"}
  ELSE IF ~big_le(big_mul(n, big_of(size)), big_of(SureAlloc)) THEN {"MemoryError", "None"}
  ELSE {"None"}

\* data[:, 1:] of the flat values of num_items rows of 1 + nc columns
drop_col0(vals, num_items, nc) ==
  Concat([k \in 1..num_items |-> SubSeq(vals, (k - 1) * (1 + nc) + 2, k * (1 + nc))])

\* a - 1 for a positive a, 0 for 0: the columns data[:, 1:] keeps
columns_kept(a) ==
  IF a.digits = <<>> THEN a ELSE [sign |-> 1, digits |-> nat_sub(a.digits, <<49>>)]

\* _read_data, lines 43-47, r the numbers read.  The shape of the array is kept
\* in integers of any size.
AsciiItems(r) ==
  \E e \in fromfile_exc(big_mul(rd.num_items, big_succ(rd.num_components)), 8) :
    IF e # "None" THEN Raise(e) /\ UNCHANGED <<pos, rd>>
    ELSE /\ pos' = r.pos
         /\ IF ~reshape_ok(Len(r.vals), <<rd.num_items, big_succ(rd.num_components)>>, 8)
            THEN Raise("ValueError") /\ rd' = rd
            ELSE LET sh == new_shape(Len(r.vals),
                                     <<rd.num_items, big_succ(rd.num_components)>>)
                 IN  /\ rd' = [rd EXCEPT !.data =
                                 Arr(<<sh[1], columns_kept(sh[2])>>, "float64",
                                     IF r.vals = <<>> THEN <<>>
                                     ELSE drop_col0(r.vals, big_val(sh[1]),
                                                    big_val(sh[2]) - 1))]
                     /\ Goto("end_of_data")

\* The dtype [("index", c_int), ("values", c_double, (nc,))] can be made: the
\* subarray has a length that is not negative and a size that fits a C int.
record_dtype_ok(nc) == nc.digits = <<>> \/ (nc.sign > 0 /\ big_le(nc, big_of(268435455)))

\* The size of one record ("index", c_int), ("values", c_double, (nc,)).
RecordSize(nc) == 4 + 8 * nc

\* The field index of record k, the field values of record k.
RecordIndex(bs, p, nc, k) == unpack_i(SubSeq(bs, p + (k - 1) * RecordSize(nc) + 1,
                                              p + (k - 1) * RecordSize(nc) + 4))
RecordValues(bs, p, nc, k) ==
  [j \in 1..nc |-> F64Val(SubSeq(bs, p + (k - 1) * RecordSize(nc) + 4 + 8 * (j - 1) + 1,
                                     p + (k - 1) * RecordSize(nc) + 4 + 8 * j))]

\* numpy.fromfile(f, count=n, dtype=dtype): the number of whole records read
\* from offset p, all that are left for a negative count, and the offsets the
\* file may be left at when fewer records are left than were asked for.
RecordsRead(bs, p, n, nc) ==
  IF n.sign > 0 /\ big_small(n) /\ big_val(n) <= (Len(bs) - p) \div RecordSize(nc)
  THEN big_val(n)
  ELSE (Len(bs) - p) \div RecordSize(nc)
OffsetsAfter(bs, p, n, nc) ==
  IF n.sign < 0 \/ (big_small(n) /\ big_val(n) = RecordsRead(bs, p, n, nc))
  THEN {p + RecordsRead(bs, p, n, nc) * RecordSize(nc)}
  ELSE {p + RecordsRead(bs, p, n, nc) * RecordSize(nc), Len(bs)}

\* len(range(1, n + 1))
range_len(n) == IF n.sign < 0 THEN big_of(0) ELSE n

\* data["index"] == range(1, num_items + 1) for k records read: the exceptions
\* it may raise, "None" when it gives an array.  The range becomes an array of
\* 64-bit integers; arrays of k and of m elements are compared element by
\* element when k = m and broadcast when one of the two has one element, and
\* otherwise the comparison gives no array and .all() fails in a way that depends
\* on the numpy at hand.
compare_exc(k, m) ==
  IF ~fits_int64(big_mul(m, big_of(8))) THEN {"ValueError"}
  ELSE (IF ~big_le(big_mul(m, big_of(8)), big_of(SureAlloc)) THEN {"MemoryError"} ELSE {})
         \cup (IF big_of(k) # m /\ k # 1 /\ m # big_of(1)
               THEN {"AttributeError", "ValueError"}
               ELSE {"None"})

\* (data["index"] == range(1, num_items + 1)).all() for k records read
indices_match(bs, p, nc, k, m) ==
  IF big_of(k) = m THEN \A i \in 1..k : RecordIndex(bs, p, nc, i) = i
  ELSE IF k = 1 THEN m.digits = <<>>
  ELSE \A i \in 1..k : RecordIndex(bs, p, nc, i) = 1

\* _read_data, lines 50-54, k the number of records read
BinaryItems(k) ==
  IF ~record_dtype_ok(rd.num_components)
  THEN Raise("ValueError") /\ UNCHANGED <<rd, pos>>
  ELSE \E e \in fromfile_exc(rd.num_items, RecordSize(big_val(rd.num_components))) :
    IF e # "None" THEN Raise(e) /\ UNCHANGED <<rd, pos>>
    ELSE /\ pos' \in OffsetsAfter(f, pos, rd.num_items, big_val(rd.num_components))
         /\ \E c \in compare_exc(k, range_len(rd.num_items)) :
              IF c # "None" THEN Raise(c) /\ rd' = rd
              ELSE IF ~indices_match(f, pos, big_val(rd.num_components), k,
                                     range_len(rd.num_items))
              THEN Raise("ReadError") /\ rd' = rd
              ELSE /\ rd' = [rd EXCEPT !.data =
                               Arr(<<big_of(k), rd.num_components>>, "float64",
                                   Concat([i \in 1..k |->
                                             RecordValues(f, pos,
                                                          big_val(rd.num_components),
                                                          i)]))]
                   /\ Goto("end_of_data")

\* _read_data, lines 42-54
ReadItems ==
  /\ g_pc = "items"
  /\ Running
  /\ IF hdr.is_ascii
     THEN AsciiItems(fromfile_text(f, pos,
                                   ReadLimit(f, big_mul(rd.num_items,
                                                        big_succ(rd.num_components))),
                                   <<>>))
     ELSE BinaryItems(IF record_dtype_ok(rd.num_components)
                      THEN RecordsRead(f, pos, rd.num_items, big_val(rd.num_components))
                      ELSE 0)
  /\ UNCHANGED <<g_in, f, line, eof_reads, decl, sent, hdr, reader, writer,
                 mesh_out, fh, data_dict, fh2>>
DataLine(raw) ==
  /\ Advance(raw)
  /\ IF ~decode_ok(raw) THEN Raise("UnicodeDecodeError") /\ line' = line
     ELSE line' = decode(raw) /\ Goto("fast_forward_data")

\* _read_data, line 57
ReadAfterItems ==
  /\ g_pc = "end_of_data"
  /\ Running
  /\ DataLine(readline(f, pos))
  /\ UNCHANGED <<g_in, f, decl, sent, hdr, reader, writer, mesh_out, fh, rd,
                 data_dict, fh2>>

\* _read_data, lines 58-66: one readline of the loop, or what follows the loop.
\* An array is followed when its dimensions have at most nine digits; the array
\* a section written by _write_data gave is then written again.
FastForwardData ==
  /\ g_pc = "fast_forward_data"
  /\ Running
  /\ IF strip(line) # <<36, 69, 110, 100>> \o g_in.tag
     THEN /\ eof_reads < MaxEofReads
          /\ DataLine(readline(f, pos))
          /\ data_dict' = data_dict
     ELSE /\ UNCHANGED <<pos, eof_reads, line>>
          /\ big_small(rd.data.shape[1]) /\ big_small(rd.data.shape[2])
          /\ IF rd.string_tags = <<>>
             THEN Raise("IndexError") /\ data_dict' = data_dict
             ELSE /\ data_dict' = [set |-> TRUE, name |-> rd.string_tags[1],
                                   data |-> collapse(Arr(<<big_val(rd.data.shape[1]),
                                                           big_val(rd.data.shape[2])>>,
                                                         rd.data.dtype, rd.data.flat))]
                  /\ Goto(IF g_in.op = "_read_data" THEN "returned" ELSE "rewrite")
  /\ UNCHANGED <<g_in, f, decl, sent, hdr, reader, writer, mesh_out, fh, rd, fh2>>

Rewrote(r) ==
  /\ fh2' = r.out
  /\ IF r.exc # "None" THEN Raise(r.exc) ELSE Goto("returned")

\* _write_data of the array read back, on a fresh output
Rewrite ==
  /\ g_pc = "rewrite"
  /\ Running
  /\ Rewrote(_write_data(g_in.tag, data_dict.name, data_dict.data, g_in.binary))
  /\ UNCHANGED <<g_in, f, pos, line, eof_reads, decl, sent, hdr, reader, writer,
                 mesh_out, fh, rd, data_dict>>

(***************************************************************************)
(* Physical names (gmsh/common.py).  A field_data mapping is a sequence of *)
(* [name, value] in iteration order; a value is None or a sequence of      *)
(* items, an item an int or a str.                                         *)
(***************************************************************************)
N_PhysicalNames == <<80, 104, 121, 115, 105, 99, 97, 108, 78, 97, 109, 101, 115>>    \* "PhysicalNames"

\* int(x) of an item: defined for an int and for a str that spells one
int_coercible(x) == x.ty = "int" \/ int_ok(x.s)
int_of(x) == IF x.ty = "int" THEN x.v ELSE int_val(x.s)

\* int(x) as the sign and the digits of the integer, in which entries are
\* compared and formatted
sort_key(x) ==
  IF x.ty = "int"
  THEN [sign |-> IF x.v < 0 THEN 0 - 1 ELSE 1,
        digits |-> IF x.v = 0 THEN <<>> ELSE NatStr(IF x.v < 0 THEN 0 - x.v ELSE x.v)]
  ELSE [sign |-> IF IntDigits(x.s) = <<>> THEN 1 ELSE Sign(cstrip(ascii_number(x.s))),
        digits |-> IntDigits(x.s)]
key_less(a, b) ==
  IF a.sign # b.sign THEN a.sign < b.sign
  ELSE IF a.sign > 0 THEN digits_less(a.digits, b.digits)
  ELSE digits_less(b.digits, a.digits)
key_str(a) ==
  (IF a.sign < 0 THEN <<45>> ELSE <<>>) \o (IF a.digits = <<>> THEN <<48>> ELSE a.digits)

\* phys_num, phys_dim = field_data[phys_name]; int(phys_num), int(phys_dim):
\* whether neither ValueError nor TypeError is raised
coercible(v) ==
  /\ ~v.none
  /\ Len(v.items) = 2
  /\ int_coercible(v.items[1])
  /\ int_coercible(v.items[2])

\* _write_physical_names, lines 141-148: the entries (phys_dim, phys_num, phys_name)
RECURSIVE entries_of(_)
entries_of(fd) ==
  IF fd = <<>> THEN <<>>
  ELSE (IF coercible(Head(fd).value)
        THEN <<[dim |-> int_of(Head(fd).value.items[2]),
                num |-> int_of(Head(fd).value.items[1]), name |-> Head(fd).name,
                dim_key |-> sort_key(Head(fd).value.items[2]),
                num_key |-> sort_key(Head(fd).value.items[1])]>>
        ELSE <<>>)
         \o entries_of(Tail(fd))

\* a <= b for two entries, as tuples
entry_le(a, b) ==
  \/ key_less(a.dim_key, b.dim_key)
  \/ a.dim_key = b.dim_key /\ key_less(a.num_key, b.num_key)
  \/ a.dim_key = b.dim_key /\ a.num_key = b.num_key /\ ~str_less(b.name, a.name)

RECURSIVE insert_entry(_, _)
insert_entry(e, es) ==
  IF es = <<>> THEN <<e>>
  ELSE IF entry_le(e, Head(es)) THEN <<e>> \o es
  ELSE <<Head(es)>> \o insert_entry(e, Tail(es))

\* Entries left in the order of the mapping.
unsorted(es) == es

\* entries.sort()
RECURSIVE sort_entries(_)
sort_entries(es) ==
  IF es = <<>> THEN <<>> ELSE insert_entry(Head(es), sort_entries(Tail(es)))

\* '{} {} "{}"\n'.format(*entry)
entry_line(e) ==
  key_str(e.dim_key) \o <<32>> \o key_str(e.num_key) \o <<32, 34>> \o encode(e.name) \o <<34>> \o NL

\* _write_physical_names(fh, field_data): the bytes written to fh
_write_physical_names(fd) ==
  IF entries_of(fd) = <<>> THEN <<>>
  ELSE <<36>> \o N_PhysicalNames \o NL
         \o IntStr(Len(entries_of(fd))) \o NL
         \o Concat([k \in 1..Len(entries_of(fd)) |->
                      entry_line(sort_entries(entries_of(fd))[k])])
         \o <<36, 69, 110, 100>> \o N_PhysicalNames \o NL

WrotePhysicalNames(out) ==
  /\ fh' = fh \o out
  /\ IF out = <<>>
     THEN Goto("returned") /\ UNCHANGED <<f, pos>>
     ELSE /\ f' = Damaged(out, N_PhysicalNames, g_in.damage)
          /\ pos' = Len(N_PhysicalNames) + 2
          /\ Goto("_read_physical_names")

\* _write_physical_names on an open output; the codec that reads the file back
\* has consumed the line "$PhysicalNames" when it calls _read_physical_names
WritePhysicalNames ==
  /\ g_pc = "_write_physical_names"
  /\ Running
  /\ WrotePhysicalNames(_write_physical_names(g_in.field_data))
  /\ UNCHANGED <<g_in, line, eof_reads, decl, sent, hdr, reader, writer, mesh_out,
                 rd, data_dict, fh2, field_data>>

\* _read_physical_names, lines 18-20: field_data after the passes over the lines ls
RECURSIVE names_from(_, _)
names_from(ls, acc) ==
  IF ls = <<>> THEN acc
  ELSE names_from(Tail(ls),
                  DictSet(acc, shlex_split(decode(Head(ls))).words[3],
                          <<big_plain(big_int(shlex_split(decode(Head(ls))).words[2])),
                            big_plain(big_int(shlex_split(decode(Head(ls))).words[1]))>>))

\* _read_physical_names, b the count line and the loop, last the line read after it
PhysicalNames(b, last) ==
  /\ field_data' = names_from(b.lines, field_data)
  /\ IF b.exc # "None"
     THEN /\ pos' = b.pos
          /\ eof_reads' = eof_reads + big_val(b.eofs)
          /\ Raise(b.exc)
          /\ line' = line
     ELSE /\ pos' = b.pos + Len(last)
          /\ eof_reads' = eof_reads + big_val(b.eofs) + (IF last = <<>> THEN 1 ELSE 0)
          /\ IF ~decode_ok(last) THEN Raise("UnicodeDecodeError") /\ line' = line
             ELSE /\ line' = decode(last)
                  /\ IF strip(decode(last)) # <<36, 69, 110, 100>> \o N_PhysicalNames
                     THEN Raise("ReadError")
                     ELSE Goto("returned")

\* _read_physical_names(f, field_data)
ReadPhysicalNames ==
  /\ g_pc = "_read_physical_names"
  /\ Running
  /\ PhysicalNames(Block(f, pos, "name"), readline(f, Block(f, pos, "name").pos))
  /\ UNCHANGED <<g_in, f, decl, sent, hdr, reader, writer, mesh_out, fh, rd,
                 data_dict, fh2>>

(***************************************************************************)
(* Inputs of the Gmsh calls.                                               *)
(***************************************************************************)
\* What may come before the MeshFormat section: nothing, one or two comment
\* sections, a comment section that is never closed, another section.
Preambles ==
  { <<>>,
    <<36, 67, 111, 109, 109, 101, 110, 116, 115, 10, 104, 105, 10, 36, 69, 110, 100, 67, 111, 109, 109, 101, 110, 116, 115, 10>>,
    <<36, 67, 111, 109, 109, 101, 110, 116, 115, 10, 36, 69, 110, 100, 67, 111, 109, 109, 101, 110, 116, 115, 10, 36, 67, 111, 109, 109, 101, 110, 116, 115, 10, 104, 105, 10, 36, 69, 110, 100, 67, 111, 109, 109, 101, 110, 116, 115, 10>>,
    <<36, 67, 111, 109, 109, 101, 110, 116, 115, 10, 104, 105, 10>>,
    <<36, 70, 111, 111, 10>> }

HeaderVersions == {V_2, V_22, V_4, V_40, V_41, V_42, V_99}
HeaderModes == {<<48>>, <<49>>, <<50>>, <<48, 49>>}    \* "0", "1", "2", "01"

\* What may follow the declaration line: nothing, the integer 1 in the byte order
\* of the host, the integer 1 in the other byte order, the integer -1.
Sentinels ==
  {<<>>, <<1, 0, 0, 0, 10>>, <<0, 0, 0, 1, 10>>, <<255, 255, 255, 255, 10>>}

\* The end of the MeshFormat section: closed, input ended, closed by another marker.
HeaderEnds == {S_EndMeshFormat \o NL, <<>>, <<36, 69, 110, 100, 77, 101, 115, 104, 102, 111, 114, 109, 97, 116, 10>>}

\* Declaration lines with too few fields or a word size that is no integer.
ShortDeclarations ==
  {<<52, 46, 49, 10>>, <<52, 46, 49, 32, 48, 10>>, <<52, 46, 49, 32, 48, 32, 120, 10>>, <<10>>}

MshFiles ==
  { pre \o S_MeshFormat \o NL \o v \o <<32>> \o m \o <<32, 56>> \o NL \o s \o e :
      pre \in Preambles, v \in HeaderVersions, m \in HeaderModes, s \in Sentinels,
      e \in HeaderEnds }
    \cup { S_MeshFormat \o NL \o d \o S_EndMeshFormat \o NL : d \in ShortDeclarations }
    \cup { <<>> }

\* Data sections found on disk, each with the encoding the header of its file
\* declares:
\*   every number there is, for the item count -1;
\*   a number without digits after its point, "1.e5";
\*   fewer items than the count, one of them "1e400";
\*   no string tag, the item "nan", no newline at the end;
\*   an item count of 31 digits;
\*   binary, every record there is, for the item count -1;
\*   binary, one record that holds 0.1;
\*   more string tags than lines.
FoundSections ==
  { [binary |-> FALSE,
      bytes |-> <<36, 78, 111, 100, 101, 68, 97, 116, 97, 10, 49, 10, 34, 97, 34,
                 10, 49, 10, 48, 46, 48, 10, 51, 10, 48, 10, 49, 10, 45, 49, 10,
                 49, 32, 50, 46, 53, 32, 50, 32, 45, 48, 46, 48, 10, 36, 69, 110,
                 100, 78, 111, 100, 101, 68, 97, 116, 97, 10>>],
    [binary |-> FALSE,
      bytes |-> <<36, 78, 111, 100, 101, 68, 97, 116, 97, 10, 49, 10, 34, 97, 34,
                 10, 49, 10, 48, 46, 48, 10, 51, 10, 48, 10, 49, 10, 50, 10, 49,
                 32, 49, 46, 101, 53, 10, 50, 32, 51, 46, 48, 10, 36, 69, 110,
                 100, 78, 111, 100, 101, 68, 97, 116, 97, 10>>],
    [binary |-> FALSE,
      bytes |-> <<36, 78, 111, 100, 101, 68, 97, 116, 97, 10, 49, 10, 34, 97, 34,
                 10, 49, 10, 48, 46, 48, 10, 51, 10, 48, 10, 49, 10, 51, 10, 49,
                 32, 48, 46, 53, 10, 50, 32, 49, 101, 52, 48, 48, 10, 36, 69,
                 110, 100, 78, 111, 100, 101, 68, 97, 116, 97, 10>>],
    [binary |-> FALSE,
      bytes |-> <<36, 78, 111, 100, 101, 68, 97, 116, 97, 10, 48, 10, 49, 10, 48,
                 46, 48, 10, 51, 10, 48, 10, 49, 10, 49, 10, 49, 32, 110, 97,
                 110, 10, 36, 69, 110, 100, 78, 111, 100, 101, 68, 97, 116, 97>>],
    [binary |-> FALSE,
      bytes |-> <<36, 78, 111, 100, 101, 68, 97, 116, 97, 10, 49, 10, 34, 97, 34,
                 10, 49, 10, 48, 46, 48, 10, 51, 10, 48, 10, 49, 10, 49, 48, 48,
                 48, 48, 48, 48, 48, 48, 48, 48, 48, 48, 48, 48, 48, 48, 48, 48,
                 48, 48, 48, 48, 48, 48, 48, 48, 48, 48, 48, 48, 10, 49, 32, 48,
                 46, 53, 10, 36, 69, 110, 100, 78, 111, 100, 101, 68, 97, 116,
                 97, 10>>],
    [binary |-> TRUE,
      bytes |-> <<36, 78, 111, 100, 101, 68, 97, 116, 97, 10, 49, 10, 34, 97, 34,
                 10, 49, 10, 48, 46, 48, 10, 51, 10, 48, 10, 49, 10, 45, 49, 10,
                 1, 0, 0, 0, 0, 0, 0, 0, 0, 0, 248, 63, 10, 36, 69, 110, 100, 78,
                 111, 100, 101, 68, 97, 116, 97, 10>>],
    [binary |-> TRUE,
      bytes |-> <<36, 78, 111, 100, 101, 68, 97, 116, 97, 10, 49, 10, 34, 97, 34,
                 10, 49, 10, 48, 46, 48, 10, 51, 10, 48, 10, 49, 10, 49, 10, 1,
                 0, 0, 0, 154, 153, 153, 153, 153, 153, 185, 63, 10, 36, 69, 110,
                 100, 78, 111, 100, 101, 68, 97, 116, 97, 10>>],
    [binary |-> FALSE,
      bytes |-> <<36, 78, 111, 100, 101, 68, 97, 116, 97, 10, 51, 10, 34, 97, 34,
                 10>>] }

WriteArguments ==
  [fmt_version : {V_2, V_4, V_40, V_41, V_22, V_99}, binary : BOOLEAN]
    \cup { registered(n) :
             n \in {"gmsh", "gmsh2-ascii", "gmsh2-binary", "gmsh4-ascii", "gmsh4-binary"} }

\* Element i of a float64 field, in halves, and of an int64 field.
FloatAt(i) == <<1, 0 - 3, 0, 2, 5, 3, 0 - 2, 4, 0 - 1>>[((i - 1) % 9) + 1]
IntAt(i) == <<5, 0 - 2, 0, 1>>[((i - 1) % 4) + 1]

DataFields ==
  { Arr(<<n>>, "float64", [i \in 1..n |-> FloatAt(i)]) : n \in 0..MaxItems }
    \cup { Arr(<<n, c>>, "float64", [i \in 1..(n * c) |-> FloatAt(i)]) :
             n \in 0..MaxItems, c \in {1, 2, 3, 5, 9} }
    \cup { Arr(<<n>>, "int64", [i \in 1..n |-> IntAt(i)]) : n \in 1..MaxItems }
    \cup { Arr(<<n, 1>>, "int64", [i \in 1..n |-> IntAt(i)]) : n \in 1..MaxItems }

\* Items and values of a field_data mapping.
IntItem(n) == [ty |-> "int", v |-> n, s |-> <<>>]
StrItem(t) == [ty |-> "str", v |-> 0, s |-> t]
Pair(a, b) == [none |-> FALSE, items |-> <<a, b>>]
NoneValue == [none |-> TRUE, items |-> <<>>]

\* Mappings name -> (id, dimension): out of order, with entries that cannot be
\* coerced, with two entries of one (dimension, id), with the id "1_0", empty.
FieldDatas ==
  { <<[name |-> <<98>>, value |-> Pair(IntItem(2), IntItem(1))],
      [name |-> <<97>>, value |-> Pair(IntItem(1), IntItem(2))],
      [name |-> <<99>>, value |-> Pair(IntItem(1), IntItem(1))]>>,
    <<[name |-> <<97, 32, 98>>, value |-> Pair(IntItem(3), IntItem(2))],
      [name |-> <<120>>, value |-> Pair(StrItem(<<113>>), IntItem(1))],
      [name |-> <<110>>, value |-> NoneValue],
      [name |-> <<116>>, value |-> [none |-> FALSE,
                                    items |-> <<IntItem(1), IntItem(2), IntItem(3)>>]],
      [name |-> <<115>>, value |-> Pair(StrItem(<<55>>), IntItem(0))]>>,
    <<[name |-> <<122>>, value |-> Pair(IntItem(12), IntItem(1))],
      [name |-> <<121>>, value |-> Pair(IntItem(12), IntItem(1))],
      [name |-> <<119>>, value |-> Pair(IntItem(3), IntItem(0))]>>,
    <<[name |-> <<117>>, value |-> Pair(StrItem(<<49, 95, 48>>), IntItem(1))]>>,
    <<[name |-> <<110>>, value |-> NoneValue]>>,
    <<>> }

NoArguments ==
  [op |-> "none", fmt_version |-> <<>>, binary |-> FALSE, mesh |-> NoMesh, tag |-> <<>>,
   name |-> <<>>, data |-> NoData, damage |-> "none", field_data |-> <<>>]

(***************************************************************************)
(* The Gmsh specification: one call and, for the writers, the read of what *)
(* was written.                                                            *)
(***************************************************************************)
GFresh ==
  /\ g_ret = [exc |-> "None", requested |-> <<>>, known |-> <<>>]
  /\ pos = 0
  /\ line = <<>>
  /\ eof_reads = 0
  /\ decl = <<>>
  /\ sent = <<>>
  /\ hdr = [fmt_version |-> <<>>, data_size |-> 0, is_ascii |-> TRUE]
  /\ reader = "none"
  /\ writer = "none"
  /\ mesh_out = NoMesh
  /\ fh = <<>>
  /\ rd = [string_tags |-> <<>>, num_components |-> big_of(0), num_items |-> big_of(0),
           data |-> Arr(<<big_of(0), big_of(0)>>, "float64", <<>>)]
  /\ data_dict = [set |-> FALSE, name |-> <<>>, data |-> NoData]
  /\ fh2 = <<>>
  /\ field_data = <<>>

GInit ==
  /\ \/ /\ g_pc = "read_buffer"
        /\ g_in = [NoArguments EXCEPT !.op = "read_buffer"]
        /\ f \in MshFiles
     \/ /\ g_pc = "write"
        /\ \E a \in WriteArguments, m \in GmshMeshes :
             g_in = [NoArguments EXCEPT !.op = "write", !.fmt_version = a.fmt_version,
                                        !.binary = a.binary, !.mesh = m]
        /\ f = <<>>
     \/ /\ g_pc = "_write_data"
        /\ \E t \in {S_NodeData, S_ElementData}, d \in DataFields, b \in BOOLEAN,
              dm \in {"none", "cut", "other"} :
             g_in = [NoArguments EXCEPT !.op = "_write_data", !.tag = t, !.name = <<97>>,
                                        !.data = d, !.binary = b, !.damage = dm]
        /\ f = <<>>
     \/ /\ g_pc = "open"
        /\ \E s \in FoundSections :
             /\ g_in = [NoArguments EXCEPT !.op = "_read_data", !.tag = S_NodeData,
                                           !.binary = s.binary]
             /\ f = s.bytes
     \/ /\ g_pc = "_write_physical_names"
        /\ \E fd \in FieldDatas, dm \in {"none", "cut", "other"} :
             g_in = [NoArguments EXCEPT !.op = "_write_physical_names",
                                        !.field_data = fd, !.damage = dm]
        /\ f = <<>>
  /\ GFresh

\* No Gmsh call in progress.
GIdle ==
  /\ g_pc = "unused"
  /\ g_in = NoArguments
  /\ f = <<>>
  /\ GFresh

XNext ==
  \/ Enter /\ UNCHANGED gvars
  \/ Exit /\ UNCHANGED gvars
  \/ \E pts \in PointsChoices : write_points_cells(pts) /\ UNCHANGED gvars
  \/ \E p \in Payloads(cells_arg) :
       write_data(p.t, p.point_data, p.cell_data) /\ UNCHANGED gvars
  \/ ReaderInit /\ UNCHANGED gvars
  \/ read_points_cells /\ UNCHANGED gvars
  \/ \E k \in 0..(num_steps - 1) : read_data(k) /\ UNCHANGED gvars
  \/ ReaderExit /\ UNCHANGED gvars

GNext ==
  \/ OpenData /\ UNCHANGED <<xvars, field_data>>
  \/ ReadFirstLine /\ UNCHANGED <<xvars, field_data>>
  \/ SkipComments /\ UNCHANGED <<xvars, field_data>>
  \/ ReadDeclaration /\ UNCHANGED <<xvars, field_data>>
  \/ ReadSentinel /\ UNCHANGED <<xvars, field_data>>
  \/ ReadAfterDeclaration /\ UNCHANGED <<xvars, field_data>>
  \/ FastForward /\ UNCHANGED <<xvars, field_data>>
  \/ Dispatch /\ UNCHANGED <<xvars, field_data>>
  \/ CodecRead /\ UNCHANGED <<xvars, field_data>>
  \/ Write /\ UNCHANGED <<xvars, field_data>>
  \/ WriteData /\ UNCHANGED <<xvars, field_data>>
  \/ ReadStringTags /\ UNCHANGED <<xvars, field_data>>
  \/ ReadRealTags /\ UNCHANGED <<xvars, field_data>>
  \/ ReadIntegerTags /\ UNCHANGED <<xvars, field_data>>
  \/ ReadItems /\ UNCHANGED <<xvars, field_data>>
  \/ ReadAfterItems /\ UNCHANGED <<xvars, field_data>>
  \/ FastForwardData /\ UNCHANGED <<xvars, field_data>>
  \/ Rewrite /\ UNCHANGED <<xvars, field_data>>
  \/ WritePhysicalNames /\ UNCHANGED xvars
  \/ ReadPhysicalNames /\ UNCHANGED xvars

XdmfInit == XInit /\ GIdle
GmshInit == GInit /\ XIdle

SpecXdmf == XdmfInit /\ [][XNext]_vars
SpecGmsh == GmshInit /\ [][GNext]_vars

(***************************************************************************)
(* Claims about the time series.                                           *)
(***************************************************************************)

\* C1: a write_data call made before any write_points_cells call has returned
\* fails with WriteError, and a write_data call that returns was made with
\* has_mesh set by a write_points_cells call that returned.
C1_WriteDataNeedsMesh ==
  w_ret.op = "write_data" =>
    /\ mesh_ok = 0 => w_ret.exc = "WriteError"
    /\ w_ret.exc = "None" => (mesh_ok > 0 /\ has_mesh)

\* A write_data call that failed after a write_points_cells call had failed.
C1_Witness ==
  /\ w_ret = Ret("write_data", "WriteError")
  /\ mesh_ok = 0
  /\ domain # <<>>

HasNoText(frame) ==
  \E i \in 1..Len(frame.children) :
    /\ frame.children[i].tag = "Attribute"
    /\ Len(frame.children[i].children) = 1
    /\ frame.children[i].children[1].Format = "XML"
    /\ ~Has(frame.children[i].children[1], "text")

\* The loop of read_data over the frame meets a time or a data item that the
\* conversions of lines 151 and 196-204 do not accept.
Unreadable(frame) ==
  frame \in {FrameBadTime, FrameBadWord, FrameBadType} \/ HasNoText(frame)

MeshThenFrames ==
  /\ Len(domain) = 1
  /\ mesh_ok = 1
  /\ Len(w_log) = Len(collection)

ArraysOf(w) ==
  [i \in 1..Len(w.point_data) |-> w.point_data[i].data]
    \o Concat([j \in 1..Len(w.cell_data) |->
                 [i \in 1..Len(w.cell_data[j].per_type) |->
                    w.cell_data[j].per_type[i].data]])
HasEmptyArray(w) == \E i \in 1..Len(ArraysOf(w)) : ArraysOf(w)[i].flat = <<>>

\* The number of significant decimal digits of the float h/2.
NumSigDigits(h) == Len(NoTrailingZeros(SigDigits(IF h < 0 THEN 0 - h ELSE h)))

\* The array b read is the array a written: the same shape and dtype and the
\* same elements, but for the float32 elements of more than eight significant
\* digits when the array went through XML text.
ReadBack(fmt, a, b) ==
  /\ b.shape = a.shape
  /\ b.dtype = a.dtype
  /\ Len(b.flat) = Len(a.flat)
  /\ \A i \in 1..Len(a.flat) :
       (fmt = "XML" /\ a.dtype = "float32" /\ NumSigDigits(a.flat[i]) > 8)
         \/ b.flat[i] = a.flat[i]
PointDataReadBack(fmt, pw, pr) ==
  /\ Len(pr) = Len(pw)
  /\ \A i \in 1..Len(pw) :
       pr[i].name = pw[i].name /\ ReadBack(fmt, pw[i].data, pr[i].data)
CellDataReadBack(fmt, cw, cr) ==
  /\ Len(cr) = Len(cw)
  /\ \A j \in 1..Len(cw) :
       /\ cr[j].name = cw[j].name
       /\ Len(cr[j].per_type) = Len(cw[j].per_type)
       /\ \A i \in 1..Len(cw[j].per_type) :
            /\ cr[j].per_type[i].type = cw[j].per_type[i].type
            /\ ReadBack(fmt, cw[j].per_type[i].data, cr[j].per_type[i].data)

C6_TeardownClosesHandles ==
  /\ w_pc = "exited" =>
       /\ w_ret = Ret("__exit__", "None")
       /\ \A i \in 1..Len(handles) :
            handles[i].owner = "writer" => (~handles[i].open /\ handles[i].closes = 1)
  /\ r_pc = "exited" =>
       /\ r_ret = Ret("__exit__", "None")
       /\ \A i \in 1..Len(handles) :
            handles[i].owner = "reader" => (~handles[i].open /\ handles[i].closes = 1)

\* C11: in a Binary or HDF session every array written got a destination of
\* its own: data_counter counts the arrays written so far, and no two of them
\* share a sidecar file name or a dataset name.
C11_UniqueDestinations ==
  data_format \in {"Binary", "HDF"} =>
    /\ data_counter = Len(heavy)
    /\ \A i, j \in 1..Len(heavy) : i # j => heavy[i].dest # heavy[j].dest

C11_Witness ==
  /\ data_format = "Binary"
  /\ mesh_ok >= 1
  /\ Len(w_log) >= 1
  /\ Len(heavy) >= 4
  /\ data_counter = Len(heavy)

\* The number of nodes of a cell of type t.
Arity(t) == CASE t = "vertex" -> 1 [] t = "line" -> 2 [] t = "triangle" -> 3 [] OTHER -> 4

\* The sum over all cells of (arity + 1), plus one per line cell.
StatedDimension(cs) ==
  SumSeq([i \in 1..Len(cs) |->
            cs[i].data.shape[1] * (Arity(cs[i].type) + 1)
              + (IF cs[i].type = "line" THEN cs[i].data.shape[1] ELSE 0)])

\* Every cell as its type index, the node count 2 for a line, and its nodes.
StatedStream(cs) ==
  Concat([i \in 1..Len(cs) |->
            Concat([r \in 1..cs[i].data.shape[1] |->
                      <<meshio_type_to_xdmf_index(cs[i].type)>>
                        \o (IF cs[i].type = "line" THEN <<2>> ELSE <<>>)
                        \o Row(cs[i].data, r)])])

\* The data item of the topology of the grid added last, and the integers it holds.
LastTopologyItem(dom) == dom[Len(dom)].children[2].children[1]
LastTopologyStream(dom, hv) ==
  IF LastTopologyItem(dom).Format = "XML"
  THEN [i \in 1..Len(split(LastTopologyItem(dom).text)) |->
          int_val(split(LastTopologyItem(dom).text)[i])]
  ELSE hv[Len(hv)].data.flat

\* C13: when write_points_cells has written a mapping of more than one cell
\* type, the Dimensions of the topology is the sum over all cells of (arity + 1)
\* plus one per line cell, which is the number of integers of the stream, and
\* the stream holds every cell as its type index, the node count 2 if it is a
\* line, and its nodes.
C13_MixedDimensions ==
  [][(mesh_ok' = mesh_ok + 1 /\ Len(cells_arg) > 1) =>
       /\ LastTopologyItem(domain').Dimensions = IntStr(StatedDimension(cells_arg))
       /\ Len(LastTopologyStream(domain', heavy')) = StatedDimension(cells_arg)
       /\ LastTopologyStream(domain', heavy') = StatedStream(cells_arg)]_vars

FramesOnDisk ==
  IF disk.written THEN disk.root.children[1].children[1].children ELSE <<>>
HasTime(frame) == \E i \in 1..Len(frame.children) : frame.children[i].tag = "Time"

\* C14: the temporal collection holds one frame per write_data call that
\* returned, and no file written holds a frame without a Time element.
C14_FailedWriteLeavesTree ==
  /\ Len(collection) = Len(w_log)
  /\ w_pc # "absent" => \A i \in 1..Len(FramesOnDisk) : HasTime(FramesOnDisk[i])

\* C15: no call changes the cells mapping of the caller.
C15_CellsUnchanged == [][cells_arg' = cells_arg]_vars

(***************************************************************************)
(* Claims about the Gmsh codec front end, checked under SpecGmsh.          *)
(***************************************************************************)
WrongCount ==
  /\ g_in.op = "_write_data"
  /\ Len(g_in.data.shape) = 2
  /\ g_in.data.shape[2] \notin {1, 3, 9}

\* C5: writing a data field whose component count is not 1, 3 or 9 raises a
\* WriteError and leaves the output as it was before the call.
C5_RejectsBeforeWriting ==
  WrongCount =>
    /\ g_pc = "_write_data"
    /\ g_ret.exc \in {"None", "WriteError"}
    /\ fh = <<>>

SkipLoops == {"comments", "fast_forward", "fast_forward_data"}

\* C7: when the input ends inside a section that is skipped to its terminator,
\* the read has failed with a ReadError.
C7_MissingTerminatorIsFatal ==
  (g_pc \in SkipLoops /\ eof_reads > 0) => g_ret.exc = "ReadError"

\* C8: the reader is chosen by the exact version string of the header, otherwise
\* by the text before its first "."; "4" gets the reader of "4.0"; for a version
\* matching neither way the read fails with an error naming the version and
\* the known versions, and no reader is called.
C8_ReadDispatch ==
  /\ reader # "none" =>
       /\ hdr.fmt_version \in {V_2, V_22} => reader = "_gmsh22"
       /\ hdr.fmt_version \in {V_4, V_40, V_42} => reader = "_gmsh40"
       /\ hdr.fmt_version = V_41 => reader = "_gmsh41"
       /\ hdr.fmt_version # V_99
  /\ hdr.fmt_version = V_99 =>
       /\ g_pc \notin {"reader.read_buffer", "returned"}
       /\ mesh_out = NoMesh
       /\ g_pc = "dispatch" /\ ~Running =>
            g_ret = [exc |-> "ValueError", requested |-> V_99,
                     known |-> <<V_2, V_4, V_40, V_41>>]
  /\ (g_pc = "dispatch" /\ ~Running) => hdr.fmt_version = V_99

C8_Witness ==
  /\ g_in.op = "read_buffer"
  /\ hdr.fmt_version = V_4
  /\ reader = "_gmsh40"
  /\ g_pc = "reader.read_buffer"

HeaderReturned == g_pc \in {"dispatch", "reader.read_buffer", "returned"}

\* C9: _read_header returns only when the mode field is "0" or "1" and, in binary
\* mode, the four bytes after the declaration line are the integer 1; another
\* mode field or another sentinel is a ReadError; in ASCII mode nothing is read
\* as a sentinel.
C9_HeaderNegotiation ==
  g_in.op = "read_buffer" =>
    /\ HeaderReturned =>
         /\ Len(decl) >= 3
         /\ decl[2] \in {<<48>>, <<49>>}
         /\ hdr = [fmt_version |-> decl[1], data_size |-> 8,
                   is_ascii |-> (decl[2] = <<48>>)]
         /\ decl[2] = <<49>> => sent = <<1, 0, 0, 0>>
    /\ (Len(decl) >= 2 /\ decl[2] \notin {<<48>>, <<49>>}) =>
         /\ g_ret.exc = "ReadError"
         /\ g_pc = "_read_header"
    /\ (Len(sent) = 4 /\ sent # <<1, 0, 0, 0>>) =>
         /\ g_ret.exc = "ReadError"
         /\ g_pc = "sentinel"
    /\ (Len(decl) >= 2 /\ decl[2] # <<49>>) => sent = <<>>
    /\ (g_pc = "end_of_header" /\ hdr.is_ascii) => (pos > 0 /\ f[pos] = 10)

C9_Witness ==
  /\ g_in.op = "read_buffer"
  /\ HeaderReturned
  /\ ~hdr.is_ascii
  /\ sent = <<1, 0, 0, 0>>
  /\ hdr.fmt_version = V_41

OneComponent ==
  /\ g_in.op = "_write_data"
  /\ g_in.damage = "none"
  /\ Len(g_in.data.shape) = 1 \/ g_in.data.shape[2] = 1

\* The values of the field given to _write_data, as floats.
GivenValues ==
  [i \in 1..Len(g_in.data.flat) |->
     IF g_in.data.dtype = "int64" THEN 2 * g_in.data.flat[i] ELSE g_in.data.flat[i]]

\* The lines of the section written from the array read back.
Rewritten == split_on(fh2, 10)

\* The section written again has component count 1, item count N and the
\* indices 1..N, and is the section written first.
SameSection ==
  /\ fh2 = fh
  /\ Rewritten[8] = <<49>>
  /\ Rewritten[9] = IntStr(g_in.data.shape[1])
  /\ \A k \in 1..g_in.data.shape[1] :
       IF g_in.binary
       THEN SubSeq(Rewritten[10], 12 * (k - 1) + 1, 12 * (k - 1) + 4) = <<k, 0, 0, 0>>
       ELSE split(Rewritten[9 + k])[1] = IntStr(k)

ReadBackFlat ==
  /\ data_dict.set
  /\ data_dict.data.shape = <<g_in.data.shape[1]>>
  /\ data_dict.data.flat = GivenValues

\* C10 as stated: a field of one component, of shape (N,) or (N,1), reads back as
\* a 1-D array of length N with the same values, and the array read back is
\* written as a section identical to the first.
C10_CollapseIdempotent ==
  OneComponent =>
    /\ g_ret.exc = "None"
    /\ g_pc = "returned" => (ReadBackFlat /\ SameSection)

\* The data lines of the first section hold integer literals, and the lines
\* written from the array read back hold float literals: the two sections differ.
IntegerLiterals ==
  /\ \A k \in 1..g_in.data.shape[1] :
       /\ split(split_on(fh, 10)[9 + k]) = <<IntStr(k), IntStr(g_in.data.flat[k])>>
       /\ split(Rewritten[9 + k]) = <<IntStr(k), FloatRepr(2 * g_in.data.flat[k])>>
  /\ g_in.data.shape[1] > 0 => fh2 # fh

\* C10, amended: a field of one component, of shape (N,) or (N,1), reads back as
\* a 1-D float array of length N with the same values; for a float64 field or
\* the binary encoding the array read back is written as a section identical to
\* the first; an integer field written in ASCII is written with integer
\* literals, reads back as floats and is written again with float literals.
C10_CollapseIdempotentFloat ==
  OneComponent =>
    /\ g_ret.exc = "None"
    /\ g_pc = "returned" =>
         /\ ReadBackFlat
         /\ data_dict.data.dtype = "float64"
         /\ (g_in.data.dtype = "float64" \/ g_in.binary) => SameSection
         /\ (g_in.data.dtype = "int64" /\ ~g_in.binary) => IntegerLiterals

C10_Witness ==
  /\ OneComponent
  /\ g_pc = "returned"
  /\ g_in.data.shape = <<2, 1>>
  /\ g_in.data.dtype = "float64"
  /\ ~g_in.binary
  /\ data_dict.data.shape = <<2>>
  /\ fh2 = fh


(***************************************************************************)
(* Claims about the physical names section.                                *)
(***************************************************************************)
WrittenNames == g_in.op = "_write_physical_names" /\ g_pc # "_write_physical_names"

\* The entries of the caller's mapping whose (id, dimension) int() accepts.
Coerced == {i \in 1..Len(g_in.field_data) : coercible(g_in.field_data[i].value)}
IdOf(i) == int_of(g_in.field_data[i].value.items[1])
DimensionOf(i) == int_of(g_in.field_data[i].value.items[2])

\* The line of entry i, with the dimension or with the id in front.
NameLine(i, dim_first) ==
  (IF dim_first THEN IntStr(DimensionOf(i)) \o <<32>> \o IntStr(IdOf(i))
   ELSE IntStr(IdOf(i)) \o <<32>> \o IntStr(DimensionOf(i)))
    \o <<32, 34>> \o g_in.field_data[i].name \o <<34>>

Ascending(i, j) ==
  \/ DimensionOf(i) < DimensionOf(j)
  \/ DimensionOf(i) = DimensionOf(j) /\ IdOf(i) <= IdOf(j)

\* The lines written are: the opening marker, the count of the coercible
\* entries, one line for each of them and no other, ascending by
\* (dimension, id), and the closing marker.
NamesSection(ls, dim_first) ==
  /\ Len(ls) = Cardinality(Coerced) + 4
  /\ ls[1] = <<36>> \o N_PhysicalNames
  /\ ls[2] = IntStr(Cardinality(Coerced))
  /\ ls[Len(ls) - 1] = <<36, 69, 110, 100>> \o N_PhysicalNames
  /\ ls[Len(ls)] = <<>>
  /\ \E order \in [1..Cardinality(Coerced) -> Coerced] :
       /\ \A i \in Coerced : \E k \in DOMAIN order : order[k] = i
       /\ \A k \in DOMAIN order : ls[2 + k] = NameLine(order[k], dim_first)
       /\ \A k \in DOMAIN order : k > 1 => Ascending(order[k - 1], order[k])

\* C12 (as stated): the physical names are written ascending by (dimension, id),
\* each as the line: id dimension "name", after a count of the entries written;
\* an entry that cannot be coerced to integers is neither counted nor written.
C12_PhysicalNamesIdFirst ==
  (WrittenNames /\ Coerced # {}) => NamesSection(split_on(fh, 10), FALSE)

\* C12 (amended): the physical names are written ascending by (dimension, id),
\* each as the line: dimension id "name", after a count of the entries written;
\* an entry that cannot be coerced to integers is neither counted nor written,
\* and nothing at all is written when no entry can be coerced.
C12_PhysicalNamesDimensionFirst ==
  WrittenNames =>
    IF Coerced = {} THEN fh = <<>> ELSE NamesSection(split_on(fh, 10), TRUE)

\* A mapping with entries that are skipped and two that are written, out of the
\* order of the mapping, read back as name -> (id, dimension).
C12_Witness ==
  /\ WrittenNames
  /\ g_pc = "returned"
  /\ Len(g_in.field_data) = 5
  /\ Cardinality(Coerced) = 2
  /\ fh = <<36>> \o N_PhysicalNames \o NL \o <<50>> \o NL
            \o <<48, 32, 55, 32, 34, 115, 34>> \o NL
            \o <<50, 32, 51, 32, 34, 97, 32, 98, 34>> \o NL
            \o <<36, 69, 110, 100>> \o N_PhysicalNames \o NL
  /\ field_data = <<[name |-> <<115>>, data |-> <<7, 0>>],
                    [name |-> <<97, 32, 98>>, data |-> <<3, 2>>]>>
====
